---- MODULE Spec2Model ----
(***************************************************************************)
(* FLATHEAD streaming pipeline (es-ua/flathead).                           *)
(*                                                                         *)
(*   Spec      robot side: capture producers -> bounded asyncio queues ->  *)
(*             stereo synchronizer -> send loops -> transport              *)
(*             (audio_streamer.py, video_streamer.py, main.py)             *)
(*   FairSpec  the video side of Spec with the event loop's scheduling of  *)
(*             the synchronizer                                            *)
(*   WireSpec  wire codec: client _pack_message, server _unpack_header and *)
(*             _process_message (main.py, server/server.py)                *)
(*                                                                         *)
(* Times are integers in microseconds.  A frame is [seq, timestamp]: seq   *)
(* is the frame's capture number on its channel (1, 2, ...), which stands  *)
(* for its payload.  None is Python's None.                                *)
(***************************************************************************)
EXTENDS Integers, Sequences, FiniteSets, TLC

\* ------------------------------------------------------------- bounds
\* asyncio.Queue(maxsize=50) of AudioStreamer._queues, scaled down
AudioMaxsize == 2
\* asyncio.Queue(maxsize=10) of _frame_queues["left"] and ["right"], scaled down
VideoMaxsize == 2
\* asyncio.Queue(maxsize=10) of _frame_queues["stereo"], scaled down
StereoMaxsize == 1
\* frames captured in one run, over all channels, with one streamer enabled
MaxCaptures == 4
\* frames captured in one run, over all channels, with both streamers enabled
MaxCapturesBoth == 1
\* frames captured in one run of FairSpec, over both cameras
MaxCapturesFair == 2
\* len(data) of a packed payload in WireSpec
MaxPayload == 2
\* messages sent over one connection in WireSpec
MaxMessages == 2
\* config.server.max_reconnect_attempts in ConnSpec: 0 .. MaxAttempts
MaxAttempts == 2
\* audio frames captured in one run of ConnSpec
MaxCapturesConn == 2
\* frames captured in one run of TwoLoopSpec, over all channels
MaxCapturesTwoLoop == 3
\* frames captured in one run of ShutdownSpec, over all channels
MaxCapturesShutdown == 2

\* samples of a buffer handed to SoundLocalizer in LocSpec
MaxBuffer == 3

\* samples of a signal handed to SoundLocalizer in DelaySpec
MaxSignal == 6

\* stop() calls in flight at the same time in StopSpec
MaxStopCalls == 3

\* frames captured in one run of StopSpec with the audio streamer; the video
\* streamer captures one more, to have a pair
MaxCapturesStop == 1

\* RTCPeerConnections made per camera id in RtcSpec
MaxPeerConnections == 3

\* ---------------------------------------------------------- constants
\* abs(left.timestamp - right.timestamp) < 0.05, in microseconds
SyncWindowUs == 50000

\* StreamingService.MSG_* and StreamingServer.MSG_*
MSG_AUDIO == 1
MSG_VIDEO == 2
MSG_STEREO == 3
MSG_CONTROL == 255

\* struct.calcsize('>BBdI'): msg_type (1) + source_id (1) + timestamp (8) + length (4)
HeaderLen == 14

\* SoundLocalizer.mic_distance: mic_distance_cm = 30.0
MicDistanceCm == 30
\* SoundLocalizer.speed_of_sound, cm/s
SpeedOfSound == 34300

AudioSources == {"front", "side"}
Cameras == {"left", "right"}
Channels == AudioSources \cup Cameras

None == [seq |-> 0, timestamp |-> -1]
NonePair == [left |-> None, right |-> None, timestamp |-> -1]

\* the readings of time.time() a run may see, in microseconds: 0 s, 0.010 s and
\* 0.060 s, which are 10 ms (below the window), 50 ms (at it) and 60 ms (above it) apart
ClockReadings == <<0, 10000, 60000>>

\* time.time() at clock reading k
TimeOf(k) == ClockReadings[k]

\* time_info.inputBufferAdcTime of the n-th block: blocks of chunk_size = 1024
\* samples at sample_rate = 48000 Hz are 21333 us apart
AdcTime(n) == (n * 1024 * 1000) \div 48

Abs(x) == IF x < 0 THEN -x ELSE x

VARIABLES
    config,          \* StreamingConfig: audio.enabled, video.enabled, server.protocol,
                     \* server.max_reconnect_attempts, and lib: the transport's
                     \* library (websockets, aiohttp) was imported
    svc_pc,          \* StreamingService.run(): "init", "connecting" (suspended in
                     \* websockets.connect), "hello" (suspended in the send of the
                     \* hello), "streaming" (in gather), "failed" (returned)
    svc_running,     \* StreamingService.running
    stopping,        \* a stop() call is suspended in await self.led.stop()
    websocket,       \* StreamingService.websocket: "none" or "open"
    http_session,    \* StreamingService.http_session: "none" or "open"
    attempts,        \* history: the calls of websockets.connect() made so far
    hellos,          \* history: the hello messages sent on the current websocket
    led_status,      \* LedController._status
    led_running,     \* LedController.running
    reported,        \* history: every status given to LedController.set_status()
    stats,           \* StreamingService.stats
    audio_running,   \* AudioStreamer.running
    stream_open,     \* AudioStreamer._streams: the sources whose InputStream is started
    audio_queues,    \* AudioStreamer._queues
    video_running,   \* StereoVideoStreamer.running
    cam_running,     \* CameraCapture.running, per camera
    frame_queues,    \* StereoVideoStreamer._frame_queues: left, right, stereo
    capture_pc,      \* _capture_loop task per camera: "idle", "loop", "done"
    sync_pc,         \* _stereo_sync_loop task: "idle", "top", "get_left", "get_right", "done"
    left_frame,      \* _stereo_sync_loop's local left_frame
    audio_pc,        \* _stream_audio task
    audio_frame,     \* _stream_audio's local frame, while its send is awaited
    video_pc,        \* _stream_video task
    video_pair,      \* _stream_video's local stereo, while its sends are awaited
    stats_pc,        \* _stats_loop task: "idle", "top", "sleep", "done"
    now,             \* the clock: index of the last reading of time.time()
    budget,          \* bound: the frames the run may still capture
    captured,        \* history: frames captured so far, per channel
    sent,            \* history: seq of the frames written to the transport, per channel
    discarded,       \* history: <<left, right>> of the synchronizer iterations that
                     \* took a frame and handed no pair on
    inflight,        \* the message on the connection that the server has not yet read
    pack_args,       \* history: the arguments of _pack_message, while inflight is its result
    srv_clients,     \* StreamingServer.clients holds the client
    srv_robot_id,    \* StreamingServer.clients[client_id]["robot_id"]
    srv_stats,       \* StreamingServer.stats
    handled,         \* history: what _process_message did with the last message
    messages,        \* bound: messages sent so far
    loc_pc,          \* a call of SoundLocalizer.calculate_direction: "idle", "called",
                     \* "returned", "raised"
    loc_left,        \* its argument left_audio
    loc_right,       \* its argument right_audio
    loc_rate,        \* its argument sample_rate
    loc_result,      \* what it returned: [delay, sin, angle, confidence], and its
                     \* local correlation
    stop_more,       \* the further stop() calls in flight while one is suspended
    rtc_connected,   \* WebRTCClient._connected
    peer_connections,\* WebRTCClient.peer_connections: per camera id, None or the
                     \* number of the RTCPeerConnection
    video_tracks,    \* WebRTCClient.video_tracks: the camera ids that have a track
    open_pcs,        \* the RTCPeerConnections made and not closed: <<camera id, number>>
    pcs_made,        \* bound and history: RTCPeerConnections made so far, per camera id
    handler_pc,      \* the socket's connect handler: "idle", or the camera id whose
                     \* start_camera_stream it is suspended in
    reconnect_pc,    \* run() and its reconnect_loop task: "run" (run() suspended in
                     \* connect()), "over" (run() returned), "sleep", "connect", the
                     \* camera id whose start_camera_stream it is suspended in, "raised"
    reconnect_len,   \* len(video_tracks) when reconnect_loop began its for loop
    api_pc           \* a call of stop_camera_stream() or disconnect() by the
                     \* application: [op, at, keys]

robot_vars == <<config, svc_pc, svc_running, stopping, websocket, http_session, attempts,
          hellos, led_status, led_running, reported, stats, stats_pc, audio_running,
          stream_open,
          audio_queues, video_running, cam_running, frame_queues, capture_pc, sync_pc,
          left_frame, audio_pc, audio_frame, video_pc, video_pair, now, budget, captured,
          sent, discarded>>

wire_vars == <<inflight, pack_args, srv_clients, srv_robot_id, srv_stats, handled, messages>>

loc_vars == <<loc_pc, loc_left, loc_right, loc_rate, loc_result>>

rtc_vars == <<rtc_connected, peer_connections, video_tracks, open_pcs, pcs_made,
              handler_pc, reconnect_pc, reconnect_len, api_pc>>

\* what the steps of one stop() call, of the tasks of the streaming service and of
\* the server leave alone
other_vars == <<loc_vars, stop_more, rtc_vars>>

vars == <<robot_vars, wire_vars, other_vars>>

svc_vars == <<config, svc_pc, svc_running, stopping, websocket, http_session, attempts,
              hellos, led_status, led_running, reported, stats_pc>>
audio_cap_vars == <<audio_running, stream_open>>
video_cap_vars == <<video_running, cam_running>>
hist_vars == <<budget, captured, sent, discarded>>

\* the run's budget of captured frames
CaptureBudget == IF config.audio /\ config.video THEN MaxCapturesBoth ELSE MaxCaptures

\* ------------------------------------------------------ asyncio.Queue
\* Queue.full(): maxsize > 0 and qsize() >= maxsize
QueueFull(q, maxsize) == Len(q) >= maxsize

\* mutant: put_nowait() without the full() test
QueuePutUnchecked(q, maxsize, item) == Append(q, item)

\* mutant: put_nowait() that inserts at the head (appendleft)
QueuePutFront(q, maxsize, item) == IF QueueFull(q, maxsize) THEN q ELSE <<item>> \o q

\* mutant: put_nowait() on a full queue makes room by dropping the head
QueuePutEvictOldest(q, maxsize, item) ==
    IF QueueFull(q, maxsize) THEN Append(Tail(q), item) ELSE Append(q, item)

\* Queue.put_nowait(item): raises QueueFull and leaves the queue alone, or appends
QueuePutNowait(q, maxsize, item) == IF QueueFull(q, maxsize) THEN q ELSE Append(q, item)

\* Queue.get_nowait() on a non-empty queue: the queue after the head was taken
QueueGetNowait(q) == Tail(q)

\* ------------------------------------------------------- wire format
\* a float64 by its IEEE-754 fields: sign bit, 11-bit exponent, and the 52-bit
\* mantissa as its top 4 bits followed by its 6 low bytes
Float64(s, e, m) == [sign |-> s, exponent |-> e, mantissa |-> m]

\* struct.pack('>d', x): the 8 bytes, most significant first
PackDouble(x) ==
    <<x.sign * 128 + x.exponent \div 16, (x.exponent % 16) * 16 + x.mantissa[1]>>
    \o Tail(x.mantissa)

\* mutant: the 8 bytes read least significant first ('<d')
UnpackDoubleLittleEndian(b) ==
    [sign |-> b[8] \div 128,
     exponent |-> (b[8] % 128) * 16 + b[7] \div 16,
     mantissa |-> <<b[7] % 16, b[6], b[5], b[4], b[3], b[2], b[1]>>]

\* struct.unpack('>d', b)
UnpackDouble(b) ==
    [sign |-> b[1] \div 128,
     exponent |-> (b[1] % 128) * 16 + b[2] \div 16,
     mantissa |-> <<b[2] % 16>> \o SubSeq(b, 3, 8)]

\* struct.pack('>I', n), 0 <= n < 2^32
PackUint32(n) ==
    <<(n \div 16777216) % 256, (n \div 65536) % 256, (n \div 256) % 256, n % 256>>

\* struct.unpack('>I', b)
UnpackUint32(b) == ((b[1] * 256 + b[2]) * 256 + b[3]) * 256 + b[4]

\* _pack_message(msg_type, source_id, timestamp, data): header + data
PackMessage(msg_type, source_id, timestamp, data) ==
    <<msg_type, source_id>> \o PackDouble(timestamp) \o PackUint32(Len(data)) \o data

\* data[start:stop] for 0 <= start <= stop: the slice stops at the end of data
Slice(data, start, stop) ==
    SubSeq(data, start + 1, IF stop < Len(data) THEN stop ELSE Len(data))

\* the (None, None, None, None) of _unpack_header
NoHeader ==
    [msg_type |-> -1, source_id |-> -1, timestamp |-> Float64(-1, -1, <<>>), payload |-> <<>>]

\* _unpack_header(data)
UnpackHeader(data) ==
    IF Len(data) < HeaderLen
    THEN NoHeader
    ELSE LET length == UnpackUint32(SubSeq(data, 11, 14))
         IN  [msg_type |-> data[1],
              source_id |-> data[2],
              timestamp |-> UnpackDouble(SubSeq(data, 3, 10)),
              payload |-> Slice(data, HeaderLen, HeaderLen + length)]

\* --------------------------------------------------- messages (inputs)
\* msg_type: the four MSG_* and a value that is none of them
MessageTypes == {0, MSG_AUDIO, MSG_VIDEO, MSG_STEREO, MSG_CONTROL}
\* source_id: front/left, side/right, and the largest uint8
SourceIds == {0, 1, 255}
\* timestamp: 1762387200.25 (a reading of time.time()) and -0.005
Timestamps ==
    {Float64(0, 1053, <<10, 66, 249, 64, 16, 0, 0>>),
     Float64(1, 1015, <<4, 122, 225, 71, 174, 20, 123>>)}
\* data: every byte string over {0x00, 0xff} of up to MaxPayload bytes
Payloads == UNION {[1..n -> {0, 255}] : n \in 0..MaxPayload}

\* a text message by what json.loads() makes of it: the client's hello, another
\* JSON object, JSON that is no object, or no JSON
JsonKinds == {"hello", "object", "array", "invalid"}

\* the arguments _pack_message is called with
PackArgs ==
    [msg_type : MessageTypes, source_id : SourceIds, timestamp : Timestamps,
     data : Payloads]

\* _pack_message(**a)
Packed(a) == PackMessage(a.msg_type, a.source_id, a.timestamp, a.data)

\* the proper prefixes of the packed messages
TruncatedMessages ==
    UNION {{SubSeq(Packed(a), 1, k) : k \in 0..(Len(Packed(a)) - 1)} : a \in PackArgs}

NoMessage == [kind |-> "none", data |-> <<>>, json |-> "", long |-> FALSE]
BinaryMessage(data) == [kind |-> "binary", data |-> data, json |-> "", long |-> FALSE]
\* long: len(message) >= 14
TextMessage(json, long) == [kind |-> "text", data |-> <<>>, json |-> json, long |-> long]

NoArgs == [msg_type |-> -1, source_id |-> -1, timestamp |-> Float64(-1, -1, <<>>),
           data |-> <<>>]
NotHandled == [by |-> "none", source_id |-> -1, timestamp |-> Float64(-1, -1, <<>>),
               payload |-> <<>>, calls |-> {}]

\* StreamingServer.__init__, and handle_client() up to its first message
ServerConstructed ==
    /\ inflight = NoMessage
    /\ pack_args = NoArgs
    /\ srv_clients = TRUE
    /\ srv_robot_id = "none"
    /\ srv_stats = [audio_frames |-> 0, video_frames |-> 0, bytes_received |-> 0]
    /\ handled = NotHandled
    /\ messages = 0

\* SoundLocalizer(): no call of calculate_direction yet
NoBuffer == <<>>
\* a float is a fraction <<numerator, denominator>> with a positive denominator; an
\* angle is in whole degrees, or NaN
NoResult == [delay |-> 0, sin |-> <<0, 1>>, angle |-> [nan |-> FALSE, deg |-> 0],
             confidence |-> <<0, 1>>, correlation |-> <<>>]

\* the camera ids of the WebRTC client, in the order _on_server_connected starts them
RtcCameras == <<"left", "right">>

RtcCameraIds == {RtcCameras[i] : i \in 1..Len(RtcCameras)}

NoCall == [op |-> "idle", at |-> "none", keys |-> <<>>]

\* WebRTCClient.__init__, and run() of the client suspended in its connect()
ClientConstructed ==
    /\ rtc_connected = FALSE
    /\ peer_connections = [c \in RtcCameraIds |-> 0]
    /\ video_tracks = {}
    /\ open_pcs = {}
    /\ pcs_made = [c \in RtcCameraIds |-> 0]
    /\ handler_pc = "idle"
    /\ reconnect_pc = "run"
    /\ reconnect_len = 0
    /\ api_pc = NoCall

LocalizerConstructed ==
    /\ loc_pc = "idle"
    /\ loc_left = NoBuffer
    /\ loc_right = NoBuffer
    /\ loc_rate = 0
    /\ loc_result = NoResult

\* ------------------------------------------------------- construction
\* StreamingService.__init__ with its AudioStreamer and StereoVideoStreamer
Constructed ==
    /\ svc_pc = "init"
    /\ svc_running = FALSE
    /\ stopping = FALSE
    /\ stop_more = 0
    /\ websocket = "none"
    /\ http_session = "none"
    /\ attempts = 0
    /\ hellos = 0
    /\ led_status = "off"
    /\ led_running = FALSE
    /\ reported = {}
    /\ stats_pc = "idle"
    /\ stats = [audio_frames |-> 0, video_frames |-> 0, bytes_sent |-> 0, errors |-> 0]
    /\ audio_running = FALSE
    /\ stream_open = {}
    /\ audio_queues = [s \in AudioSources |-> <<>>]
    /\ video_running = FALSE
    /\ cam_running = [c \in Cameras |-> FALSE]
    /\ frame_queues = [c \in Cameras \cup {"stereo"} |-> <<>>]
    /\ capture_pc = [c \in Cameras |-> "idle"]
    /\ sync_pc = "idle"
    /\ left_frame = None
    /\ audio_pc = "idle"
    /\ audio_frame = None
    /\ video_pc = "idle"
    /\ video_pair = NonePair
    /\ now = 1
    /\ captured = [ch \in Channels |-> 0]
    /\ sent = [ch \in Channels |-> <<>>]
    /\ discarded = {}

\* server.protocol: the two that connect() supports and one that it does not
Protocols == {"websocket", "http", "rtsp"}

\* the configurations: streamers enabled in es, protocol in ps, attempts in ns,
\* library imported in ls
Configs(es, ps, ns, ls) ==
    {c \in [audio : es, video : es, protocol : ps, max_reconnect_attempts : ns, lib : ls] :
        c.audio \/ c.video}

\* any configuration with a streamer enabled, over websocket, with one attempt
Init ==
    /\ config \in Configs(BOOLEAN, {"websocket"}, {1}, {TRUE})
    /\ budget = CaptureBudget
    /\ Constructed
    /\ ServerConstructed
    /\ LocalizerConstructed
    /\ ClientConstructed

\* ------------------------------------------- StreamingService lifecycle
\* mutant: the retry loop runs one iteration more
AttemptsLeftInclusive(n, max) == n <= max

\* for attempt in range(max_reconnect_attempts): after n iterations another one starts
AttemptsLeft(n, max) == n < max

\* AudioStreamer.start(): returns at once when sounddevice is missing; each
\* InputStream may fail to start
AudioStart ==
    \/ /\ audio_running' = FALSE
       /\ stream_open' = {}
    \/ /\ audio_running' = TRUE
       /\ stream_open' \in SUBSET AudioSources

\* StereoVideoStreamer.start(): each camera may fail to start; the two capture
\* loops and the synchronizer are created either way
VideoStart ==
    /\ video_running' = TRUE
    /\ cam_running' \in [Cameras -> BOOLEAN]
    /\ capture_pc' = [c \in Cameras |-> "loop"]
    /\ sync_pc' = "top"

streamer_vars == <<audio_running, stream_open, audio_pc, video_running, cam_running,
                   capture_pc, sync_pc, video_pc, stats_pc>>

\* run() after connect() returned True: audio.start(), video.start(), the
\* statistics task and the send tasks, each streamer's only if it exists
\* (config.audio.enabled, config.video.enabled)
StartStreamers ==
    /\ stats_pc' = "top"
    /\ IF config.audio
       THEN AudioStart /\ audio_pc' = "top"
       ELSE UNCHANGED <<audio_running, stream_open, audio_pc>>
    /\ IF config.video
       THEN VideoStart /\ video_pc' = "top"
       ELSE UNCHANGED <<video_running, cam_running, capture_pc, sync_pc, video_pc>>

\* self.led.set_status(s) for each s of statuses, in order
SetStatus(statuses) ==
    /\ led_status' = statuses[Len(statuses)]
    /\ reported' = reported \cup {statuses[i] : i \in 1..Len(statuses)}

\* run(), led.start() (LedConfig.enabled, the rings or their simulation come up)
\* and connect(), up to the first suspension:
\*   websocket: in the first websockets.connect(), if the loop has an iteration;
\*   http: _connect_http() has no await, nor have the start() calls: in gather();
\*   otherwise (library missing, no attempts, unknown protocol) connect() returned
\*   False and run() returned
RunBegin ==
    /\ svc_pc = "init"
    /\ svc_running' = TRUE
    /\ led_running' = TRUE
    /\ IF /\ config.protocol = "websocket" /\ config.lib
          /\ AttemptsLeft(0, config.max_reconnect_attempts)
       THEN /\ svc_pc' = "connecting"
            /\ attempts' = attempts + 1
            /\ SetStatus(<<"connecting">>)
            /\ UNCHANGED <<http_session, streamer_vars>>
       ELSE IF config.protocol = "http" /\ config.lib
       THEN /\ svc_pc' = "streaming"
            /\ http_session' = "open"
            /\ SetStatus(<<"connecting", "connected", "streaming">>)
            /\ StartStreamers
            /\ UNCHANGED attempts
       ELSE /\ svc_pc' = "failed"
            /\ SetStatus(<<"connecting", "error">>)
            /\ UNCHANGED <<http_session, attempts, streamer_vars>>
    /\ UNCHANGED <<wire_vars, other_vars>>
    /\ UNCHANGED <<config, stopping, websocket, hellos, stats, audio_queues, frame_queues,
                   left_frame, audio_frame, video_pair, now, hist_vars>>

\* mutant: _connect_websocket returns True as soon as the connection is there,
\* without the hello
ConnectReturnsNoHello ==
    /\ svc_pc = "connecting"
    /\ svc_pc' = "streaming"
    /\ websocket' = "open"
    /\ hellos' = 0
    /\ SetStatus(<<"connected", "streaming">>)
    /\ StartStreamers
    /\ UNCHANGED <<wire_vars, other_vars>>
    /\ UNCHANGED led_running
    /\ UNCHANGED <<config, svc_running, stopping, http_session, attempts, stats,
                   audio_queues, frame_queues, left_frame, audio_frame, video_pair, now,
                   hist_vars>>

\* self.websocket = await websockets.connect(...) returned a connection; up to the
\* suspension in await self.websocket.send(hello)
ConnectReturns ==
    /\ svc_pc = "connecting"
    /\ svc_pc' = "hello"
    /\ websocket' = "open"
    /\ hellos' = 0
    /\ UNCHANGED <<wire_vars, other_vars>>
    /\ UNCHANGED led_running
    /\ UNCHANGED <<config, svc_running, stopping, http_session, attempts, led_status,
                   reported, stats, streamer_vars, audio_queues, frame_queues,
                   left_frame, audio_frame, video_pair, now, hist_vars>>

\* except Exception: the sleep, then the next iteration up to its
\* websockets.connect(), or the end of the loop: connect() sets ERROR and returns
\* False, run() returns
AttemptFailed ==
    IF AttemptsLeft(attempts, config.max_reconnect_attempts)
    THEN /\ svc_pc' = "connecting"
         /\ attempts' = attempts + 1
         /\ UNCHANGED <<led_status, reported>>
    ELSE /\ svc_pc' = "failed"
         /\ SetStatus(<<"error">>)
         /\ UNCHANGED attempts

\* mutant: run() ignores the result of connect() and goes on to start the streamers
ConnectRaisesRunGoesOn ==
    /\ svc_pc = "connecting"
    /\ IF AttemptsLeft(attempts, config.max_reconnect_attempts)
       THEN /\ svc_pc' = "connecting"
            /\ attempts' = attempts + 1
            /\ UNCHANGED <<led_status, reported, streamer_vars>>
       ELSE /\ svc_pc' = "streaming"
            /\ SetStatus(<<"error", "streaming">>)
            /\ StartStreamers
            /\ UNCHANGED attempts
    /\ UNCHANGED <<wire_vars, other_vars>>
    /\ UNCHANGED led_running
    /\ UNCHANGED <<config, svc_running, stopping, websocket, http_session, hellos, stats,
                   audio_queues, frame_queues, left_frame, audio_frame, video_pair, now,
                   hist_vars>>

\* websockets.connect() raised
ConnectRaises ==
    /\ svc_pc = "connecting"
    /\ AttemptFailed
    /\ UNCHANGED <<wire_vars, other_vars>>
    /\ UNCHANGED led_running
    /\ UNCHANGED <<config, svc_running, stopping, websocket, http_session, hellos, stats,
                   streamer_vars, audio_queues, frame_queues, left_frame, audio_frame,
                   video_pair, now, hist_vars>>

\* self.websocket.send(hello) raised; self.websocket stays as it is
HelloRaises ==
    /\ svc_pc = "hello"
    /\ AttemptFailed
    /\ UNCHANGED <<wire_vars, other_vars>>
    /\ UNCHANGED led_running
    /\ UNCHANGED <<config, svc_running, stopping, websocket, http_session, hellos, stats,
                   streamer_vars, audio_queues, frame_queues, left_frame, audio_frame,
                   video_pair, now, hist_vars>>

\* the hello was sent on the open websocket: connect() returns True, and run() goes
\* on to asyncio.gather()
RunConnected ==
    /\ svc_pc = "hello"
    /\ websocket = "open"
    /\ svc_pc' = "streaming"
    /\ hellos' = hellos + 1
    /\ SetStatus(<<"connected", "streaming">>)
    /\ StartStreamers
    /\ UNCHANGED <<wire_vars, other_vars>>
    /\ UNCHANGED led_running
    /\ UNCHANGED <<config, svc_running, stopping, websocket, http_session, attempts, stats,
                   audio_queues, frame_queues, left_frame, audio_frame, video_pair, now,
                   hist_vars>>

\* stop(), up to its suspension in await self.led.stop()
StopBegin ==
    /\ svc_pc # "init"
    /\ ~stopping
    /\ svc_running' = FALSE
    /\ stopping' = TRUE
    /\ SetStatus(<<"off">>)
    /\ led_running' = FALSE
    /\ UNCHANGED <<wire_vars, other_vars>>
    /\ UNCHANGED <<config, svc_pc, websocket, http_session, attempts, hellos, stats,
                   streamer_vars, audio_queues, frame_queues, left_frame, audio_frame,
                   video_pair, now, hist_vars>>

\* stop(), the rest: audio.stop(), video.stop() (both cameras), disconnect()
StopFinish ==
    /\ stopping
    /\ stopping' = FALSE
    /\ audio_running' = FALSE
    /\ stream_open' = {}
    /\ video_running' = FALSE
    /\ cam_running' = [c \in Cameras |-> FALSE]
    /\ websocket' = "none"
    /\ http_session' = "none"
    /\ UNCHANGED <<wire_vars, other_vars>>
    /\ UNCHANGED <<led_running, stats_pc>>
    /\ UNCHANGED <<config, svc_pc, svc_running, attempts, hellos, led_status, reported,
                   stats, audio_queues, frame_queues, capture_pc, sync_pc, left_frame,
                   audio_pc, audio_frame, video_pc, video_pair, now, hist_vars>>

\* ------------------------------------------------------ audio capture
AudioFrame(s) == [seq |-> captured[s] + 1, timestamp |-> AdcTime(captured[s] + 1)]

\* mutant: the callback makes room by dropping the oldest frame
AudioEnqueueEvictOldest(q, frame) ==
    IF QueueFull(q, AudioMaxsize) THEN Append(Tail(q), frame) ELSE Append(q, frame)

\* the callback's non-blocking put: the frame is dropped if the queue is full
AudioEnqueue(q, frame) == QueuePutNowait(q, AudioMaxsize, frame)

\* the sounddevice callback of one source
AudioCallback(s) ==
    /\ s \in stream_open
    /\ budget > 0
    /\ budget' = budget - 1
    /\ audio_queues' = [audio_queues EXCEPT ![s] = AudioEnqueue(@, AudioFrame(s))]
    /\ captured' = [captured EXCEPT ![s] = @ + 1]
    /\ UNCHANGED <<wire_vars, other_vars>>
    /\ UNCHANGED <<svc_vars, stats, audio_cap_vars, video_cap_vars, frame_queues,
                   capture_pc, sync_pc, left_frame, audio_pc, audio_frame, video_pc,
                   video_pair, now, sent, discarded>>

\* ------------------------------------------------------ video capture
\* the VideoFrame of capture_frame(), stamped time.time() at clock reading k
VideoFrame(c, k) == [seq |-> captured[c] + 1, timestamp |-> TimeOf(k)]

\* mutant: the capture loop drops the new frame when the queue is full
VideoEnqueueRejectNewest(q, frame) == QueuePutNowait(q, VideoMaxsize, frame)

\* _capture_loop's put: on QueueFull, get_nowait() then put_nowait(frame)
VideoEnqueue(q, frame) ==
    IF ~QueueFull(q, VideoMaxsize)
    THEN QueuePutNowait(q, VideoMaxsize, frame)
    ELSE IF q = <<>>
         THEN q
         ELSE QueuePutNowait(QueueGetNowait(q), VideoMaxsize, frame)

\* mutant: the capture loop tests only self.running, and a camera that failed to
\* start delivers frames
CaptureFrameFailedCamera(c) ==
    /\ capture_pc[c] = "loop"
    /\ video_running
    /\ budget > 0
    /\ budget' = budget - 1
    /\ \E k \in now..Len(ClockReadings) :
            /\ now' = k
            /\ frame_queues' =
                    [frame_queues EXCEPT ![c] = VideoEnqueue(@, VideoFrame(c, k))]
    /\ captured' = [captured EXCEPT ![c] = @ + 1]
    /\ UNCHANGED <<wire_vars, other_vars>>
    /\ UNCHANGED <<svc_vars, stats, audio_cap_vars, audio_queues, video_cap_vars,
                   capture_pc, sync_pc, left_frame, audio_pc, audio_frame, video_pc,
                   video_pair, sent, discarded>>

\* one iteration of _capture_loop that captured a frame, the clock reading k at or
\* after the last one; an iteration whose capture_frame() returned None changes
\* nothing
CaptureFrame(c) ==
    /\ capture_pc[c] = "loop"
    /\ video_running /\ cam_running[c]
    /\ budget > 0
    /\ budget' = budget - 1
    /\ \E k \in now..Len(ClockReadings) :
            /\ now' = k
            /\ frame_queues' =
                    [frame_queues EXCEPT ![c] = VideoEnqueue(@, VideoFrame(c, k))]
    /\ captured' = [captured EXCEPT ![c] = @ + 1]
    /\ UNCHANGED <<wire_vars, other_vars>>
    /\ UNCHANGED <<svc_vars, stats, audio_cap_vars, audio_queues, video_cap_vars,
                   capture_pc, sync_pc, left_frame, audio_pc, audio_frame, video_pc,
                   video_pair, sent, discarded>>

\* _capture_loop ends: while self.running and camera.running
CaptureLoopExit(c) ==
    /\ capture_pc[c] = "loop"
    /\ ~(video_running /\ cam_running[c])
    /\ capture_pc' = [capture_pc EXCEPT ![c] = "done"]
    /\ UNCHANGED <<wire_vars, other_vars>>
    /\ UNCHANGED <<svc_vars, stats, audio_cap_vars, audio_queues, video_cap_vars,
                   frame_queues, sync_pc, left_frame, audio_pc, audio_frame, video_pc,
                   video_pair, now, hist_vars>>

\* ------------------------------------------------- stereo synchronizer
\* mutant: the pair is stamped with the left frame's time
StereoPairLeftStamp(l, r) == [left |-> l, right |-> r, timestamp |-> l.timestamp]

\* the stereo_pair dict of _stereo_sync_loop
StereoPair(l, r) ==
    [left |-> l, right |-> r, timestamp |-> (l.timestamp + r.timestamp) \div 2]

\* mutant: the window includes its boundary
WithinWindowInclusive(l, r) == Abs(l.timestamp - r.timestamp) <= SyncWindowUs

\* mutant: the timestamps are not compared
WithinWindowAlways(l, r) == TRUE

\* abs(left_frame.timestamp - right_frame.timestamp) < 0.05
WithinWindow(l, r) == Abs(l.timestamp - r.timestamp) < SyncWindowUs

\* mutant: a pair is made of whatever the iteration got, also of one frame
SyncEmitOneSided(q, l, r) ==
    IF (l # None \/ r # None) /\ WithinWindowAlways(l, r)
    THEN QueuePutNowait(q, StereoMaxsize, StereoPair(l, r))
    ELSE q

\* the stereo queue after the iteration's "if left_frame and right_frame" block
SyncEmit(q, l, r) ==
    IF l # None /\ r # None /\ WithinWindow(l, r)
    THEN QueuePutNowait(q, StereoMaxsize, StereoPair(l, r))
    ELSE q

\* mutant: a get() without the timeout returns only when the queue holds an item
GetReadyNoTimeout(q) == q # <<>>

\* asyncio.wait_for(queue.get(), timeout) returns: the queue holds an item, or the
\* timeout expires
GetReady(q) == TRUE

\* mutant: the get hands the head on and leaves it in the queue
AfterGetKeepsHead(q) == q

\* what it returns: the head if the queue holds a frame, None after the timeout
GetOrTimeout(q) == IF q = <<>> THEN None ELSE Head(q)
AfterGet(q) == IF q = <<>> THEN q ELSE QueueGetNowait(q)

\* history: the frames of an iteration that took a frame and handed no pair on
SyncDropped(q, l, r) ==
    IF SyncEmit(q, l, r) # q \/ (l = None /\ r = None) THEN {} ELSE {<<l, r>>}

\* while self.running
SyncLoopCheck ==
    /\ sync_pc = "top"
    /\ sync_pc' = IF video_running THEN "get_left" ELSE "done"
    /\ UNCHANGED <<wire_vars, other_vars>>
    /\ UNCHANGED <<svc_vars, stats, audio_cap_vars, audio_queues, video_cap_vars,
                   frame_queues, capture_pc, left_frame, audio_pc, audio_frame,
                   video_pc, video_pair, now, hist_vars>>

\* left_frame = await wait_for(queues["left"].get(), 0.1), or the timeout
SyncGetLeft ==
    /\ sync_pc = "get_left"
    /\ GetReady(frame_queues["left"])
    /\ left_frame' = GetOrTimeout(frame_queues["left"])
    /\ frame_queues' = [frame_queues EXCEPT !["left"] = AfterGet(@)]
    /\ sync_pc' = "get_right"
    /\ UNCHANGED <<wire_vars, other_vars>>
    /\ UNCHANGED <<svc_vars, stats, audio_cap_vars, audio_queues, video_cap_vars,
                   capture_pc, audio_pc, audio_frame, video_pc, video_pair, now,
                   hist_vars>>

\* right_frame = await wait_for(queues["right"].get(), 0.1), or the timeout; then the
\* pairing, up to await asyncio.sleep(0.001).  The locals are reset here, at the end
\* of the iteration, instead of at the top of the next one.
SyncGetRight ==
    /\ sync_pc = "get_right"
    /\ GetReady(frame_queues["right"])
    /\ LET r == GetOrTimeout(frame_queues["right"])
       IN  /\ frame_queues' =
                [frame_queues EXCEPT
                    !["right"] = AfterGet(@),
                    !["stereo"] = SyncEmit(@, left_frame, r)]
           /\ discarded' =
                discarded \cup SyncDropped(frame_queues["stereo"], left_frame, r)
    /\ left_frame' = None
    /\ sync_pc' = "top"
    /\ UNCHANGED <<wire_vars, other_vars>>
    /\ UNCHANGED <<svc_vars, stats, audio_cap_vars, audio_queues, video_cap_vars,
                   capture_pc, audio_pc, audio_frame, video_pc, video_pair, now,
                   budget, captured, sent>>

\* ------------------------------------------------------------- send()
\* send(): if self.websocket ... elif self.http_session: a transport to write to
TransportOpen == websocket = "open" \/ http_session = "open"

\* send() when the write it was suspended in ends: True after the write ("sent");
\* False after an exception ("error", also when the transport was closed under it)
\* or after an HTTP status other than 200 ("http_error")
SendOutcomes ==
    IF websocket = "open" THEN {"sent", "error"}
    ELSE IF http_session = "open" THEN {"sent", "http_error", "error"}
    ELSE {"error"}

\* len(message): the 14-byte header and a one-byte payload
MessageLen == 14 + 1

\* mutant: a failed send clears the byte counter
StatsAfterSendClearsBytes(st, outcome) ==
    CASE outcome = "sent" -> [st EXCEPT !.bytes_sent = @ + MessageLen]
      [] outcome = "error" -> [st EXCEPT !.errors = @ + 1, !.bytes_sent = 0]
      [] OTHER -> st

\* self.stats after send()
StatsAfterSend(st, outcome) ==
    CASE outcome = "sent" -> [st EXCEPT !.bytes_sent = @ + MessageLen]
      [] outcome = "error" -> [st EXCEPT !.errors = @ + 1]
      [] OTHER -> st

\* what the transport has received on channel ch after send() of frame f
WireAfterSend(log, ch, f, outcome) ==
    IF outcome = "sent" THEN [log EXCEPT ![ch] = Append(@, f.seq)] ELSE log

\* --------------------------------------------------- audio send loop
AudioGetPc(s) == IF s = "front" THEN "get_front" ELSE "get_side"
AudioSendPc(s) == IF s = "front" THEN "send_front" ELSE "send_side"
\* for source in ["front", "side"], then back to while self.running
AudioNextPc(s) == IF s = "front" THEN "get_side" ELSE "top"

\* _stream_audio: while self.running
AudioLoopCheck ==
    /\ audio_pc = "top"
    /\ audio_pc' = IF svc_running THEN "get_front" ELSE "done"
    /\ UNCHANGED <<wire_vars, other_vars>>
    /\ UNCHANGED <<svc_vars, stats, audio_cap_vars, audio_queues, video_cap_vars,
                   frame_queues, capture_pc, sync_pc, left_frame, audio_frame,
                   video_pc, video_pair, now, hist_vars>>

\* frame = await self.audio.get_frame(source): a frame, or None after 1 s; with a
\* frame, up to the suspension of send() in the transport; with no transport open
\* send() returns False at once, and self.stats["audio_frames"] += 1
AudioGet(s) ==
    /\ audio_pc = AudioGetPc(s)
    /\ GetReady(audio_queues[s])
    /\ audio_queues' = [audio_queues EXCEPT ![s] = AfterGet(@)]
    /\ IF audio_queues[s] = <<>>
       THEN /\ audio_frame' = None
            /\ audio_pc' = AudioNextPc(s)
            /\ UNCHANGED stats
       ELSE IF TransportOpen
       THEN /\ audio_frame' = Head(audio_queues[s])
            /\ audio_pc' = AudioSendPc(s)
            /\ UNCHANGED stats
       ELSE /\ audio_frame' = None
            /\ audio_pc' = AudioNextPc(s)
            /\ stats' = [stats EXCEPT !.audio_frames = @ + 1]
    /\ UNCHANGED <<wire_vars, other_vars>>
    /\ UNCHANGED <<svc_vars, audio_cap_vars, video_cap_vars, frame_queues,
                   capture_pc, sync_pc, left_frame, video_pc, video_pair, now,
                   hist_vars>>

\* await self.send(message), from the end of the write; self.stats["audio_frames"] += 1
AudioSend(s) ==
    /\ audio_pc = AudioSendPc(s)
    /\ \E outcome \in SendOutcomes :
            /\ stats' = [StatsAfterSend(stats, outcome) EXCEPT !.audio_frames = @ + 1]
            /\ sent' = WireAfterSend(sent, s, audio_frame, outcome)
    /\ audio_frame' = None
    /\ audio_pc' = AudioNextPc(s)
    /\ UNCHANGED <<wire_vars, other_vars>>
    /\ UNCHANGED <<svc_vars, audio_cap_vars, audio_queues, video_cap_vars, frame_queues,
                   capture_pc, sync_pc, left_frame, video_pc, video_pair, now,
                   budget, captured, discarded>>

\* --------------------------------------------------- video send loop
\* _stream_video: while self.running
VideoLoopCheck ==
    /\ video_pc = "top"
    /\ video_pc' = IF svc_running THEN "get" ELSE "done"
    /\ UNCHANGED <<wire_vars, other_vars>>
    /\ UNCHANGED <<svc_vars, stats, audio_cap_vars, audio_queues, video_cap_vars,
                   frame_queues, capture_pc, sync_pc, left_frame, audio_pc, audio_frame,
                   video_pair, now, hist_vars>>

\* stereo = await self.video.get_stereo_frame(): a pair, or None after 1 s; with a
\* pair, up to the suspension of the send() of stereo["left"] in the transport;
\* with no transport open both send() return False at once, and
\* self.stats["video_frames"] += 1
VideoGet ==
    /\ video_pc = "get"
    /\ GetReady(frame_queues["stereo"])
    /\ frame_queues' = [frame_queues EXCEPT !["stereo"] = AfterGet(@)]
    /\ IF frame_queues["stereo"] = <<>>
       THEN /\ video_pair' = NonePair
            /\ video_pc' = "top"
            /\ UNCHANGED stats
       ELSE IF TransportOpen
       THEN /\ video_pair' = Head(frame_queues["stereo"])
            /\ video_pc' = "send_left"
            /\ UNCHANGED stats
       ELSE /\ video_pair' = NonePair
            /\ video_pc' = "top"
            /\ stats' = [stats EXCEPT !.video_frames = @ + 1]
    /\ UNCHANGED <<wire_vars, other_vars>>
    /\ UNCHANGED <<svc_vars, audio_cap_vars, audio_queues, video_cap_vars,
                   capture_pc, sync_pc, left_frame, audio_pc, audio_frame, now,
                   hist_vars>>

\* await self.send(message) of stereo["left"], from the end of the write, up to the
\* suspension of the send() of stereo["right"]; with no transport open it returns
\* False at once, and self.stats["video_frames"] += 1
VideoSendLeft ==
    /\ video_pc = "send_left"
    /\ \E outcome \in SendOutcomes :
            /\ sent' = WireAfterSend(sent, "left", video_pair.left, outcome)
            /\ IF TransportOpen
               THEN /\ stats' = StatsAfterSend(stats, outcome)
                    /\ video_pc' = "send_right"
                    /\ UNCHANGED video_pair
               ELSE /\ stats' = [StatsAfterSend(stats, outcome) EXCEPT !.video_frames = @ + 1]
                    /\ video_pc' = "top"
                    /\ video_pair' = NonePair
    /\ UNCHANGED <<wire_vars, other_vars>>
    /\ UNCHANGED <<svc_vars, audio_cap_vars, audio_queues, video_cap_vars, frame_queues,
                   capture_pc, sync_pc, left_frame, audio_pc, audio_frame,
                   now, budget, captured, discarded>>

\* await self.send(message) of stereo["right"], from the end of the write;
\* self.stats["video_frames"] += 1
VideoSendRight ==
    /\ video_pc = "send_right"
    /\ \E outcome \in SendOutcomes :
            /\ stats' = [StatsAfterSend(stats, outcome) EXCEPT !.video_frames = @ + 1]
            /\ sent' = WireAfterSend(sent, "right", video_pair.right, outcome)
    /\ video_pair' = NonePair
    /\ video_pc' = "top"
    /\ UNCHANGED <<wire_vars, other_vars>>
    /\ UNCHANGED <<svc_vars, audio_cap_vars, audio_queues, video_cap_vars, frame_queues,
                   capture_pc, sync_pc, left_frame, audio_pc, audio_frame, now,
                   budget, captured, discarded>>

\* --------------------------------------------------- statistics loop
\* everything but the statistics task's position
not_stats_vars == <<config, svc_pc, svc_running, stopping, websocket, http_session,
                    attempts, hellos, led_status, led_running, reported, stats,
                    audio_running, stream_open, audio_queues, video_running, cam_running,
                    frame_queues, capture_pc, sync_pc, left_frame, audio_pc, audio_frame,
                    video_pc, video_pair, now, budget, captured, sent, discarded>>

\* _stats_loop: while self.running, up to its suspension in asyncio.sleep(10)
StatsLoopCheck ==
    /\ stats_pc = "top"
    /\ stats_pc' = IF svc_running THEN "sleep" ELSE "done"
    /\ UNCHANGED <<wire_vars, other_vars>>
    /\ UNCHANGED not_stats_vars

\* asyncio.sleep(10) returns; the rates are logged from self.stats, which stays
\* as it is
StatsWake ==
    /\ stats_pc = "sleep"
    /\ stats_pc' = "top"
    /\ UNCHANGED <<wire_vars, other_vars>>
    /\ UNCHANGED not_stats_vars

\* ------------------------------------------------------ specification
Next ==
    \/ RunBegin
    \/ ConnectReturns
    \/ ConnectRaises
    \/ HelloRaises
    \/ RunConnected
    \/ StopBegin
    \/ StopFinish
    \/ \E s \in AudioSources : AudioCallback(s)
    \/ \E c \in Cameras : CaptureFrame(c)
    \/ \E c \in Cameras : CaptureLoopExit(c)
    \/ SyncLoopCheck
    \/ SyncGetLeft
    \/ SyncGetRight
    \/ AudioLoopCheck
    \/ \E s \in AudioSources : AudioGet(s)
    \/ \E s \in AudioSources : AudioSend(s)
    \/ VideoLoopCheck
    \/ VideoGet
    \/ VideoSendLeft
    \/ VideoSendRight

Spec == Init /\ [][Next]_vars

\* the event loop runs a task that is ready: the synchronizer's loop test, and each
\* of its two wait_for() calls once its queue holds a frame or its timeout expired
SyncFairness ==
    /\ WF_vars(SyncLoopCheck)
    /\ WF_vars(SyncGetLeft)
    /\ WF_vars(SyncGetRight)

\* the video configuration (audio disabled), with its own capture budget
FairInit ==
    /\ config \in {c \in Configs(BOOLEAN, {"websocket"}, {1}, {TRUE}) : ~c.audio}
    /\ budget = MaxCapturesFair
    /\ Constructed
    /\ ServerConstructed
    /\ LocalizerConstructed
    /\ ClientConstructed

\* Next without the audio streamer's actions, which this configuration never enables
FairNext ==
    \/ RunBegin
    \/ ConnectReturns
    \/ ConnectRaises
    \/ HelloRaises
    \/ RunConnected
    \/ StopBegin
    \/ StopFinish
    \/ \E c \in Cameras : CaptureFrame(c)
    \/ \E c \in Cameras : CaptureLoopExit(c)
    \/ SyncLoopCheck
    \/ SyncGetLeft
    \/ SyncGetRight
    \/ VideoLoopCheck
    \/ VideoGet
    \/ VideoSendLeft
    \/ VideoSendRight

FairSpec == FairInit /\ [][FairNext]_vars /\ SyncFairness

\* the audio configuration (video disabled) over every protocol, with and without
\* the transport's library, and every number of connection attempts up to MaxAttempts
ConnInit ==
    /\ config \in {c \in Configs(BOOLEAN, Protocols, 0..MaxAttempts, BOOLEAN) : ~c.video}
    /\ budget = MaxCapturesConn
    /\ Constructed
    /\ ServerConstructed
    /\ LocalizerConstructed
    /\ ClientConstructed

\* Next without the video streamer's actions, which this configuration never enables
ConnNext ==
    \/ RunBegin
    \/ ConnectReturns
    \/ ConnectRaises
    \/ HelloRaises
    \/ RunConnected
    \/ StopBegin
    \/ StopFinish
    \/ \E s \in AudioSources : AudioCallback(s)
    \/ AudioLoopCheck
    \/ \E s \in AudioSources : AudioGet(s)
    \/ \E s \in AudioSources : AudioSend(s)

ConnSpec == ConnInit /\ [][ConnNext]_vars

\* the event loop runs a task that is ready: the audio send loop's test, its
\* get_frame() once the queue holds a frame or the timeout expired, and its send(),
\* whose write ends or fails
AudioLoopFairness ==
    /\ WF_vars(AudioLoopCheck)
    /\ \A s \in AudioSources : WF_vars(AudioGet(s)) /\ WF_vars(AudioSend(s))

\* main(): when run() has returned after a failed connect(), the finally clause
\* calls stop(); and a stop() suspended in led.stop() is resumed
MainFairness ==
    /\ WF_vars(svc_pc = "failed" /\ StopBegin)
    /\ WF_vars(StopFinish)

ConnFairSpec == ConnInit /\ [][ConnNext]_vars /\ AudioLoopFairness /\ MainFairness

\* one streamer, audio or video, over websocket, with every task of the service
ShutdownInit ==
    /\ config \in {c \in Configs(BOOLEAN, {"websocket"}, {1}, {TRUE}) : ~(c.audio /\ c.video)}
    /\ budget = MaxCapturesShutdown
    /\ Constructed
    /\ ServerConstructed
    /\ LocalizerConstructed
    /\ ClientConstructed

ShutdownNext ==
    \/ Next
    \/ StatsLoopCheck
    \/ StatsWake

\* asyncio.gather() of run() has returned: every task it was given has ended
GatherDone ==
    /\ svc_pc = "streaming"
    /\ stats_pc = "done"
    /\ config.audio => audio_pc = "done"
    /\ config.video => video_pc = "done"

\* the event loop runs a task that is ready, each task taking its next step: the
\* capture loops' test, the synchronizer, the send loops (a write ends or fails)
\* and the statistics loop (its sleep ends)
TaskFairness ==
    /\ \A c \in Cameras : WF_vars(CaptureLoopExit(c))
    /\ WF_vars(SyncLoopCheck \/ SyncGetLeft \/ SyncGetRight)
    /\ WF_vars(AudioLoopCheck \/ \E s \in AudioSources : AudioGet(s) \/ AudioSend(s))
    /\ WF_vars(VideoLoopCheck \/ VideoGet \/ VideoSendLeft \/ VideoSendRight)
    /\ WF_vars(StatsLoopCheck \/ StatsWake)

\* run(): when gather() has returned, the finally clause calls stop(); and a
\* stop() suspended in led.stop() is resumed
RunFairness ==
    /\ WF_vars(GatherDone /\ StopBegin)
    /\ WF_vars(StopFinish)

ShutdownSpec == ShutdownInit /\ [][ShutdownNext]_vars /\ TaskFairness /\ RunFairness

\* both streamers over http, where connect() has no suspension
TwoLoopInit ==
    /\ config \in Configs({TRUE}, {"http"}, {1}, {TRUE})
    /\ budget = MaxCapturesTwoLoop
    /\ Constructed
    /\ ServerConstructed
    /\ LocalizerConstructed
    /\ ClientConstructed

\* Next without the steps of _connect_websocket, which http never takes
TwoLoopNext ==
    \/ RunBegin
    \/ StopBegin
    \/ StopFinish
    \/ \E s \in AudioSources : AudioCallback(s)
    \/ \E c \in Cameras : CaptureFrame(c)
    \/ \E c \in Cameras : CaptureLoopExit(c)
    \/ SyncLoopCheck
    \/ SyncGetLeft
    \/ SyncGetRight
    \/ AudioLoopCheck
    \/ \E s \in AudioSources : AudioGet(s)
    \/ \E s \in AudioSources : AudioSend(s)
    \/ VideoLoopCheck
    \/ VideoGet
    \/ VideoSendLeft
    \/ VideoSendRight

TwoLoopSpec == TwoLoopInit /\ [][TwoLoopNext]_vars

\* ------------------------------------------------------ the connection
\* the connection takes one more message
CanSend ==
    /\ srv_clients
    /\ inflight.kind = "none"
    /\ messages < MaxMessages

\* message = self._pack_message(...); await self.websocket.send(message)
SendPacked ==
    /\ CanSend
    /\ \E a \in PackArgs :
            /\ inflight' = BinaryMessage(Packed(a))
            /\ pack_args' = a
    /\ handled' = NotHandled
    /\ messages' = messages + 1
    /\ UNCHANGED <<robot_vars, other_vars, srv_clients, srv_robot_id, srv_stats>>

\* a binary message that is the first k bytes of a packed one
SendTruncated ==
    /\ CanSend
    /\ \E data \in TruncatedMessages : inflight' = BinaryMessage(data)
    /\ pack_args' = NoArgs
    /\ handled' = NotHandled
    /\ messages' = messages + 1
    /\ UNCHANGED <<robot_vars, other_vars, srv_clients, srv_robot_id, srv_stats>>

\* a text message: connect()'s hello, or any other text
SendText ==
    /\ CanSend
    /\ \E j \in JsonKinds, long \in BOOLEAN : inflight' = TextMessage(j, long)
    /\ pack_args' = NoArgs
    /\ handled' = NotHandled
    /\ messages' = messages + 1
    /\ UNCHANGED <<robot_vars, other_vars, srv_clients, srv_robot_id, srv_stats>>

\* ------------------------------------------------------------- server
\* what _process_message(client_id, message) does with the message:
\*   "control"  json.loads() succeeded and _handle_control() returned
\*   "invalid"  _unpack_header() returned None: warning, return
\*   "audio", "video"  _handle_audio(), _handle_video()
\*   "ignored"  a header of any other type
\*   "raised"   an exception left _process_message: data.get() on JSON that is no
\*              object, or struct.unpack() on the str of a text message
ProcessOutcome(m) ==
    IF m.kind = "text" /\ m.json # "invalid"
    THEN IF m.json = "array" THEN "raised" ELSE "control"
    ELSE IF m.kind = "text"
    THEN IF m.long THEN "raised" ELSE "invalid"
    ELSE LET msg_type == UnpackHeader(m.data).msg_type
         IN  IF msg_type = NoHeader.msg_type THEN "invalid"
             ELSE IF msg_type = MSG_AUDIO THEN "audio"
             ELSE IF msg_type = MSG_VIDEO THEN "video"
             ELSE "ignored"

\* self.stats after _process_message
StatsAfterProcess(st, m, outcome) ==
    IF outcome \notin {"audio", "video", "ignored"}
    THEN st
    ELSE [st EXCEPT !.bytes_received = @ + Len(m.data),
                    !.audio_frames = IF outcome = "audio" THEN @ + 1 ELSE @,
                    !.video_frames = IF outcome = "video" THEN @ + 1 ELSE @]

\* history: the functions _process_message passes the message to: a str to
\* json.loads() and then to _handle_control(), or after a JSONDecodeError to
\* _unpack_header(); bytes to _unpack_header() and then to a handler
CallsMade(m, outcome) ==
    IF m.kind = "text"
    THEN {"json.loads"}
         \cup (IF m.json # "invalid" THEN {"_handle_control"} ELSE {"_unpack_header"})
    ELSE {"_unpack_header"}
         \cup (IF outcome = "audio" THEN {"_handle_audio"} ELSE {})
         \cup (IF outcome = "video" THEN {"_handle_video"} ELSE {})

\* history: the arguments _handle_audio or _handle_video was called with
HandledAs(m, outcome) ==
    IF outcome \in {"audio", "video"}
    THEN LET hdr == UnpackHeader(m.data)
         IN  [by |-> outcome, source_id |-> hdr.source_id, timestamp |-> hdr.timestamp,
              payload |-> hdr.payload, calls |-> CallsMade(m, outcome)]
    ELSE [NotHandled EXCEPT !.by = outcome, !.calls = CallsMade(m, outcome)]

\* handle_client(): one "async for message in websocket" iteration; an exception
\* ends the loop and the finally block deletes the client
ServerProcess ==
    /\ srv_clients
    /\ inflight.kind # "none"
    /\ LET outcome == ProcessOutcome(inflight)
       IN  /\ srv_stats' = StatsAfterProcess(srv_stats, inflight, outcome)
           /\ handled' = HandledAs(inflight, outcome)
           /\ srv_clients' = (outcome # "raised")
           /\ srv_robot_id' = IF inflight.kind = "text" /\ inflight.json = "hello"
                              THEN "robot" ELSE srv_robot_id
    /\ inflight' = NoMessage
    /\ UNCHANGED <<robot_vars, other_vars, pack_args, messages>>

\* the robot before run(), and the server with one client connected
WireInit ==
    /\ config \in Configs({TRUE}, {"websocket"}, {1}, {TRUE})
    /\ budget = 0
    /\ Constructed
    /\ ServerConstructed
    /\ LocalizerConstructed
    /\ ClientConstructed

WireNext ==
    \/ SendPacked
    \/ SendTruncated
    \/ SendText
    \/ ServerProcess

WireSpec == WireInit /\ [][WireNext]_vars

\* ------------------------------------------------------ SoundLocalizer
\* sample values of a buffer: after flatten().astype(np.float32)
Samples == -1..1

\* sample_rate
SampleRates == {1, 1000, 2000, 48000}

\* the buffers of at most n samples, the empty one included
BuffersUpTo(n) == UNION {[1..k -> Samples] : k \in 0..n}

RECURSIVE SeqSum(_)
SeqSum(sq) == IF sq = <<>> THEN 0 ELSE Head(sq) + SeqSum(Tail(sq))

\* np.max(np.abs(buf)) of a buffer that is not empty
PeakAbs(buf) ==
    CHOOSE m \in {Abs(buf[i]) : i \in 1..Len(buf)} :
        \A i \in 1..Len(buf) : Abs(buf[i]) <= m

\* buf / (np.max(np.abs(buf)) + 1e-10) in float32: with samples -1, 0, 1 the peak
\* is 1 and x / (1 + 1e-10) rounds to x, or the peak is 0 and 0 / 1e-10 is 0
Normalize(buf) ==
    [i \in 1..Len(buf) |-> IF PeakAbs(buf) = 0 THEN 0 ELSE buf[i] \div PeakAbs(buf)]

\* np.correlate(a, v, mode='full'): c_k = sum_n a[n + k] * v[n] for the lags
\* k = -(len(v) - 1) .. len(a) - 1; lag k is at the index k + len(v) of the sequence
Correlate(a, v) ==
    [i \in 1..(Len(a) + Len(v) - 1) |->
        SeqSum([n \in 1..Len(v) |->
                    IF n + i - Len(v) \in 1..Len(a)
                    THEN a[n + i - Len(v)] * v[n]
                    ELSE 0])]

\* np.argmax(c): the first index of the maximum, counted from 0
ArgMax(c) ==
    (CHOOSE i \in 1..Len(c) :
        /\ \A j \in 1..Len(c) : c[j] <= c[i]
        /\ \A j \in 1..(i - 1) : c[j] < c[i]) - 1

\* mutant: the delay is counted from the peak to the center
DelaySamplesFromPeak(c) == (Len(c) \div 2) - ArgMax(c)

\* center = len(correlation) // 2; delay_samples = peak_idx - center
DelaySamples(c) == ArgMax(c) - (Len(c) \div 2)

\* (delay_seconds * self.speed_of_sound) / self.mic_distance, with
\* delay_seconds = delay_samples / sample_rate
SinOfDelay(delay, rate) == <<delay * SpeedOfSound, rate * MicDistanceCm>>

\* mutant: no clamp
ClipNothing(x) == x

\* np.clip(x, -1.0, 1.0)
Clip(x) ==
    IF x[1] > x[2] THEN <<1, 1>>
    ELSE IF x[1] < -x[2] THEN <<-1, 1>>
    ELSE x

\* sin of 0, 15, ..., 90 degrees in thousandths
GridDegrees == {0, 15, 30, 45, 60, 75, 90}
SinMilli(d) ==
    CASE d = 0 -> 0 [] d = 15 -> 259 [] d = 30 -> 500 [] d = 45 -> 707
      [] d = 60 -> 866 [] d = 75 -> 966 [] d = 90 -> 1000

\* np.degrees(np.arcsin(x)), to the grid angle next to it towards 0; arcsin of a
\* value outside [-1, 1] is NaN
ArcsinDegrees(x) ==
    IF Abs(x[1]) > x[2] THEN [nan |-> TRUE, deg |-> 0]
    ELSE LET g == CHOOSE d \in GridDegrees :
                    /\ SinMilli(d) * x[2] <= Abs(x[1]) * 1000
                    /\ \A e \in GridDegrees :
                            SinMilli(e) * x[2] <= Abs(x[1]) * 1000 => e <= d
         IN  [nan |-> FALSE, deg |-> IF x[1] < 0 THEN -g ELSE g]

\* confidence = min(1.0, peak_value / (baseline * 10 + 1e-10)) with
\* baseline = np.mean(np.abs(correlation)); the 1e-10 only decides the quotient of
\* an all-zero correlation, which is 0
Confidence(c) ==
    LET peak == c[ArgMax(c) + 1]
        sumabs == SeqSum([i \in 1..Len(c) |-> Abs(c[i])])
    IN  IF sumabs = 0 THEN <<0, 1>>
        ELSE IF peak * Len(c) >= 10 * sumabs THEN <<1, 1>>
        ELSE <<peak * Len(c), 10 * sumabs>>

\* SoundLocalizer.calculate_direction from the correlation on: what it returns,
\* and its local correlation
DirectionFrom(c, rate) ==
    LET delay == DelaySamples(c)
        sin == Clip(SinOfDelay(delay, rate))
    IN  [delay |-> delay, sin |-> sin, angle |-> ArcsinDegrees(sin),
         confidence |-> Confidence(c), correlation |-> c]

\* a caller calls calculate_direction, with <<left_audio, right_audio, sample_rate>>
\* from calls
CallCalculateDirection(calls) ==
    /\ loc_pc = "idle"
    /\ loc_pc' = "called"
    /\ \E call \in calls :
            /\ loc_left' = call[1]
            /\ loc_right' = call[2]
            /\ loc_rate' = call[3]
    /\ UNCHANGED loc_result
    /\ UNCHANGED <<robot_vars, wire_vars, stop_more, rtc_vars>>

\* calculate_direction runs: np.max of an empty buffer raises ValueError
CalculateDirection ==
    /\ loc_pc = "called"
    /\ IF loc_left = NoBuffer \/ loc_right = NoBuffer
       THEN /\ loc_pc' = "raised"
            /\ UNCHANGED loc_result
       ELSE /\ loc_pc' = "returned"
            /\ \E l \in {Normalize(loc_left)}, r \in {Normalize(loc_right)} :
                 \E c \in {Correlate(l, r)} :
                    loc_result' = DirectionFrom(c, loc_rate)
    /\ UNCHANGED <<loc_left, loc_right, loc_rate>>
    /\ UNCHANGED <<robot_vars, wire_vars, stop_more, rtc_vars>>

\* the localizer alone, called with any two buffers of at most MaxBuffer samples
LocInit ==
    /\ config \in Configs({TRUE}, {"websocket"}, {1}, {TRUE})
    /\ budget = 0
    /\ Constructed
    /\ ServerConstructed
    /\ LocalizerConstructed
    /\ ClientConstructed

LocCalls(n) == BuffersUpTo(n) \X BuffersUpTo(n) \X SampleRates

LocNext ==
    \/ CallCalculateDirection(LocCalls(MaxBuffer))
    \/ CalculateDirection

LocSpec == LocInit /\ [][LocNext]_vars

\* a buffer of the same length that holds sig delayed by d samples: d zeros, then
\* sig without its last d samples
Delayed(sig, d) == [i \in 1..Len(sig) |-> IF i <= d THEN 0 ELSE sig[i - d]]

\* the delays that are small for a buffer of n samples: up to a quarter of it
SmallDelays(n) == 0..(n \div 4)

\* the signals of DelaySpec: 1 to MaxSignal samples
Signals(n) == BuffersUpTo(n) \ {NoBuffer}

\* the localizer called with a signal and its copy delayed by 0 or more samples, on
\* either side
RightDelayedCalls(n) ==
    UNION {{<<sig, Delayed(sig, d), rate>> : d \in SmallDelays(Len(sig)), rate \in SampleRates} :
            sig \in Signals(n)}
LeftDelayedCalls(n) == {<<call[2], call[1], call[3]>> : call \in RightDelayedCalls(n)}

DelayNext ==
    \/ CallCalculateDirection(RightDelayedCalls(MaxSignal))
    \/ CallCalculateDirection(LeftDelayedCalls(MaxSignal))
    \/ CalculateDirection

DelaySpec == LocInit /\ [][DelayNext]_vars

\* ================================================================ claims
SeqsOf(q) == [i \in 1..Len(q) |-> q[i].seq]
Increasing(sq) == \A i, j \in 1..Len(sq) : i < j => sq[i] < sq[j]
FramesOf(q) == {q[i] : i \in 1..Len(q)}

\* ---------------------------------------------------------------- C1
\* C1: in every reachable state each frame queue holds at most its capacity: the
\* audio queues (front, side), the video queues (left, right) and the stereo queue.
QueuesWithinCapacity ==
    /\ \A s \in AudioSources : Len(audio_queues[s]) <= AudioMaxsize
    /\ \A c \in Cameras : Len(frame_queues[c]) <= VideoMaxsize
    /\ Len(frame_queues["stereo"]) <= StereoMaxsize

\* the left queue and the stereo queue are both full, and the left camera has
\* captured more frames than the left queue holds
QueuesFullReached ==
    /\ Len(frame_queues["left"]) = VideoMaxsize
    /\ Len(frame_queues["stereo"]) = StereoMaxsize
    /\ captured["left"] > VideoMaxsize

\* ---------------------------------------------------------------- C2
\* C2: a step of the audio callback of source s (it captures frame number
\* captured[s] + 1) leaves audio_queues[s] as it is when the queue is full, and
\* appends the new frame at the tail when it is not.
AudioRejectsNewest ==
    [][\A s \in AudioSources :
        captured'[s] # captured[s] =>
            audio_queues'[s] =
                IF Len(audio_queues[s]) >= AudioMaxsize
                THEN audio_queues[s]
                ELSE Append(audio_queues[s],
                            [seq |-> captured'[s], timestamp |-> AdcTime(captured'[s])])
      ]_vars

\* the front queue is full of the first frames, in order, one more frame was
\* captured, and the send loop has taken nothing: that frame was rejected
AudioRejectReached ==
    /\ captured["front"] = AudioMaxsize + 1
    /\ SeqsOf(audio_queues["front"]) = [i \in 1..AudioMaxsize |-> i]
    /\ audio_frame = None
    /\ stats.audio_frames = 0

\* ---------------------------------------------------------------- C3
\* C3: a capture-loop step of camera c that enqueues onto a full queue removes the
\* head and appends the new frame in that one step: the queue becomes its tail
\* followed by the new frame, and its size stays the capacity.
VideoEvictsOldest ==
    [][\A c \in Cameras :
        (captured'[c] # captured[c] /\ Len(frame_queues[c]) >= VideoMaxsize) =>
            /\ frame_queues'[c] =
                  Append(Tail(frame_queues[c]),
                         [seq |-> captured'[c], timestamp |-> TimeOf(now')])
            /\ Len(frame_queues'[c]) = VideoMaxsize
      ]_vars

\* the left queue received frames 1 .. capacity + 1 and nothing was taken from it:
\* it holds frames 2 .. capacity + 1 (capacity 2: A, B, C leaves [B, C])
VideoEvictReached ==
    /\ captured["left"] = VideoMaxsize + 1
    /\ SeqsOf(frame_queues["left"]) = [i \in 1..VideoMaxsize |-> i + 1]
    /\ left_frame = None
    /\ discarded = {}
    /\ frame_queues["stereo"] = <<>>
    /\ video_pair = NonePair
    /\ stats.video_frames = 0

\* ---------------------------------------------------------------- C4
\* the frames of audio source s from the transport back to the queue
AudioPath(s) ==
    sent[s]
    \o (IF audio_pc = AudioSendPc(s) THEN <<audio_frame.seq>> ELSE <<>>)
    \o SeqsOf(audio_queues[s])

\* the frames of the left camera from the transport back to the queue
LeftPath ==
    sent["left"]
    \o (IF video_pc = "send_left" THEN <<video_pair.left.seq>> ELSE <<>>)
    \o [i \in 1..Len(frame_queues["stereo"]) |-> frame_queues["stereo"][i].left.seq]
    \o (IF left_frame # None THEN <<left_frame.seq>> ELSE <<>>)
    \o SeqsOf(frame_queues["left"])

\* the frames of the right camera from the transport back to the queue
RightPath ==
    sent["right"]
    \o (IF video_pc \in {"send_left", "send_right"}
        THEN <<video_pair.right.seq>> ELSE <<>>)
    \o [i \in 1..Len(frame_queues["stereo"]) |-> frame_queues["stereo"][i].right.seq]
    \o SeqsOf(frame_queues["right"])

\* C4: on every channel the frames written to the transport, then the frames on
\* their way to it, then the frames still queued, are in capture order: frames are
\* written in the order they were captured and no queue is ever reordered.
PerChannelFifo ==
    /\ \A s \in AudioSources : Increasing(AudioPath(s))
    /\ Increasing(LeftPath)
    /\ Increasing(RightPath)

\* the front frames 1 .. capacity and capacity + 2 were written, in that order;
\* frame capacity + 1 was rejected by the full queue
FifoAfterOverflowReached ==
    sent["front"] = [i \in 1..(AudioMaxsize + 1) |-> IF i <= AudioMaxsize THEN i ELSE i + 1]

\* ---------------------------------------------------------------- C5
\* a synchronizer step that ends an iteration with a left and a right frame:
\* left_frame from the first get, the head of the right queue from the second
SyncTookBoth ==
    /\ sync_pc = "get_right" /\ sync_pc' = "top"
    /\ left_frame # None
    /\ frame_queues["right"] # <<>>

\* the step puts a pair of exactly these two frames at the tail of the stereo queue
SyncProducedPair ==
    /\ Len(frame_queues'["stereo"]) = Len(frame_queues["stereo"]) + 1
    /\ SubSeq(frame_queues'["stereo"], 1, Len(frame_queues["stereo"]))
            = frame_queues["stereo"]
    /\ LET p == frame_queues'["stereo"][Len(frame_queues'["stereo"])]
       IN  p.left = left_frame /\ p.right = Head(frame_queues["right"])

SyncGapUs == Abs(left_frame.timestamp - Head(frame_queues["right"]).timestamp)

\* C5 as stated: for the frames L and R of one iteration, a pair (L, R) reaches the
\* stereo queue if and only if |L.timestamp - R.timestamp| < 0.05 s.
PairIffWithinWindow ==
    [][SyncTookBoth => (SyncProducedPair <=> SyncGapUs < SyncWindowUs)]_vars

\* C5 amended: for the frames L and R of one iteration, a pair (L, R) reaches the
\* stereo queue if and only if |L.timestamp - R.timestamp| < 0.05 s and the stereo
\* queue is not full; at a gap of exactly 0.05 s no pair is produced.
PairIffWithinWindowAndRoom ==
    [][SyncTookBoth =>
        (SyncProducedPair <=>
            (SyncGapUs < SyncWindowUs /\ Len(frame_queues["stereo"]) < StereoMaxsize))
      ]_vars

\* an iteration dropped two frames exactly 0.05 s apart, and another iteration's
\* pair is in the stereo queue
WindowBoundaryReached ==
    /\ \E d \in discarded :
            /\ d[1] # None /\ d[2] # None
            /\ Abs(d[1].timestamp - d[2].timestamp) = SyncWindowUs
    /\ frame_queues["stereo"] # <<>>

\* ---------------------------------------------------------------- C6
\* C6: whenever the stereo queue grows, it grows by one pair, and that pair holds
\* the iteration's left frame, its right frame, and the midpoint of their timestamps.
PairCarriesFramesAndMidpoint ==
    [][Len(frame_queues'["stereo"]) > Len(frame_queues["stereo"]) =>
        /\ SyncTookBoth
        /\ SyncProducedPair
        /\ LET p == frame_queues'["stereo"][Len(frame_queues'["stereo"])]
           IN  2 * p.timestamp = left_frame.timestamp + Head(frame_queues["right"]).timestamp
      ]_vars

\* L at 0.000 s and R at 0.010 s are the only frames captured, and the stereo queue
\* holds the one pair (L, R), stamped 0.005 s
MidpointReached ==
    /\ captured["left"] = 1 /\ captured["right"] = 1
    /\ Len(frame_queues["stereo"]) = 1
    /\ frame_queues["stereo"][1].left = [seq |-> 1, timestamp |-> 0]
    /\ frame_queues["stereo"][1].right = [seq |-> 1, timestamp |-> 10000]
    /\ frame_queues["stereo"][1].timestamp = 5000

\* ---------------------------------------------------------------- C7
\* the frames held anywhere between the capture loops and the transport
LeftFramesHeld ==
    FramesOf(frame_queues["left"]) \cup {left_frame, video_pair.left}
    \cup {p.left : p \in FramesOf(frame_queues["stereo"])}
RightFramesHeld ==
    FramesOf(frame_queues["right"]) \cup {video_pair.right}
    \cup {p.right : p \in FramesOf(frame_queues["stereo"])}

\* the frames of the dropped iterations are held nowhere and were never written
DroppedForGood ==
    \A d \in discarded :
        /\ d[1] # None => (d[1] \notin LeftFramesHeld /\ \A i \in 1..Len(sent["left"]) : sent["left"][i] # d[1].seq)
        /\ d[2] # None => (d[2] \notin RightFramesHeld /\ \A i \in 1..Len(sent["right"]) : sent["right"][i] # d[2].seq)

\* C7: an iteration whose two frames are 0.05 s or more apart leaves the stereo
\* queue as it is, takes both frames out of their queues and keeps neither; and
\* the frames of such an iteration are never again in a queue, in a pair or on the
\* transport.
MismatchDropsBoth ==
    [][/\ (SyncTookBoth /\ SyncGapUs >= SyncWindowUs) =>
            /\ frame_queues'["stereo"] = frame_queues["stereo"]
            /\ frame_queues'["left"] = frame_queues["left"]
            /\ frame_queues'["right"] = Tail(frame_queues["right"])
            /\ left_frame' = None
            /\ <<left_frame, Head(frame_queues["right"])>> \in discarded'
            /\ left_frame \notin LeftFramesHeld'
            /\ Head(frame_queues["right"]) \notin RightFramesHeld'
       /\ DroppedForGood'
      ]_vars

\* an iteration dropped two frames 0.06 s apart, and both cameras captured again
\* afterwards
MismatchDropReached ==
    \E d \in discarded :
        /\ d[1] # None /\ d[2] # None
        /\ Abs(d[1].timestamp - d[2].timestamp) > SyncWindowUs
        /\ captured["left"] > d[1].seq
        /\ captured["right"] > d[2].seq

\* ---------------------------------------------------------------- C8
\* C8: each wait of the synchronizer ends (the left get leads to the right get, the
\* right get to the end of the iteration), whatever the queues hold, and once the
\* streamer's running flag is cleared the started loop exits.
SyncNeverBlocks ==
    /\ (sync_pc = "get_left") ~> (sync_pc = "get_right")
    /\ (sync_pc = "get_right") ~> (sync_pc = "top")
    /\ (sync_pc # "idle" /\ ~video_running) ~> (sync_pc = "done")

\* the left camera never ran and never captured a frame, the synchronizer has
\* still finished an iteration with a right frame alone, and it has exited
SyncPastStalledSideReached ==
    /\ ~cam_running["left"]
    /\ captured["left"] = 0
    /\ \E d \in discarded : d[1] = None /\ d[2] # None
    /\ sync_pc = "done"

\* ---------------------------------------------------------------- C9
\* payload lengths across the range of the length field that the model's integers hold
LengthSamples == {0, 1, 255, 256, 65535, 65536, 16777215, 16777216, 2147483647}

\* C9: while the bytes of _pack_message(type, source id, timestamp, payload) are on
\* the connection, the header is 14 bytes, its length field is the payload length,
\* and _unpack_header returns the same type, source id, timestamp and payload; the
\* audio or video handler is called with that source id, timestamp and payload; and
\* the length field holds every sample length.
WireRoundTrip ==
    /\ (pack_args # NoArgs /\ inflight.kind = "binary") =>
            /\ Len(inflight.data) - Len(pack_args.data) = 14
            /\ SubSeq(inflight.data, 15, Len(inflight.data)) = pack_args.data
            /\ UnpackUint32(SubSeq(inflight.data, 11, 14)) = Len(pack_args.data)
            /\ UnpackHeader(inflight.data) =
                    [msg_type |-> pack_args.msg_type,
                     source_id |-> pack_args.source_id,
                     timestamp |-> pack_args.timestamp,
                     payload |-> pack_args.data]
    /\ (pack_args # NoArgs /\ handled.by \in {"audio", "video"}) =>
            /\ handled.by = (IF pack_args.msg_type = MSG_AUDIO THEN "audio" ELSE "video")
            /\ handled.source_id = pack_args.source_id
            /\ handled.timestamp = pack_args.timestamp
            /\ handled.payload = pack_args.data
    /\ \A n \in LengthSamples : UnpackUint32(PackUint32(n)) = n

\* the server handled a packed audio message of source 255, stamped 1762387200.25,
\* with a payload of the largest length that ends in 0xff 0x00
WireRoundTripReached ==
    /\ handled.by = "audio"
    /\ pack_args.msg_type = MSG_AUDIO
    /\ pack_args.source_id = 255
    /\ handled.source_id = 255
    /\ handled.timestamp = Float64(0, 1053, <<10, 66, 249, 64, 16, 0, 0>>)
    /\ Len(handled.payload) = MaxPayload
    /\ handled.payload[MaxPayload] = 0 /\ handled.payload[MaxPayload - 1] = 255

\* --------------------------------------------------------------- C10
\* the server reads a binary message that is shorter than a header, or whose payload
\* is shorter than the length its header declares
ReadsShortMessage ==
    /\ inflight.kind = "binary" /\ inflight'.kind = "none"
    /\ \/ Len(inflight.data) < 14
       \/ Len(inflight.data) - 14 < UnpackUint32(SubSeq(inflight.data, 11, 14))

\* C10 as stated: a message of fewer than 14 bytes, or with fewer payload bytes than
\* its header declares, is dropped: neither handler is called with it and neither
\* frame counter changes.
ShortMessageDropped ==
    [][ReadsShortMessage =>
            /\ handled'.by \notin {"audio", "video"}
            /\ srv_stats'.audio_frames = srv_stats.audio_frames
            /\ srv_stats'.video_frames = srv_stats.video_frames
      ]_vars

\* the audio handler was called with a one-byte payload of a 15-byte message, and
\* the message was counted as a frame: its header declared more than one byte
ShortPayloadDeliveredReached ==
    /\ handled.by = "audio"
    /\ pack_args = NoArgs
    /\ Len(handled.payload) = 1
    /\ srv_stats.audio_frames = 1
    /\ srv_stats.bytes_received = 15

\* --------------------------------------------------------------- C11
\* the server reads a message
ServerReads == inflight.kind # "none" /\ inflight'.kind = "none"

\* a malformed message: a truncated binary message, a text message that is no JSON
\* object, or a binary message whose type is neither audio, video nor control
Malformed(m) ==
    \/ m.kind = "binary" /\ m.data \in TruncatedMessages
    \/ m.kind = "text" /\ m.json \in {"invalid", "array"}
    \/ /\ m.kind = "binary" /\ Len(m.data) >= 14
       /\ m.data[1] \notin {MSG_AUDIO, MSG_VIDEO, MSG_CONTROL}

\* C11 as stated: reading a malformed message is never fatal to the session: the
\* client stays registered, so that the server goes on to its next message.
MalformedNeverFatal ==
    [][(ServerReads /\ Malformed(inflight)) => srv_clients']_vars

\* a text message of 14 or more characters that is no JSON was read: an exception
\* left _process_message, the client is deleted and the connection takes no more
SessionEndedByTextReached ==
    /\ ~srv_clients
    /\ handled.by = "raised"
    /\ handled.calls = {"json.loads", "_unpack_header"}
    /\ messages < MaxMessages

\* --------------------------------------------------------------- C12
\* C12 as stated: a message is passed to the control handler exactly when it is a
\* text message and to the binary header decoder exactly when it is a binary message.
ClassifiedByKindOnly ==
    [][ServerReads =>
            /\ ("_handle_control" \in handled'.calls) <=> (inflight.kind = "text")
            /\ ("_unpack_header" \in handled'.calls) <=> (inflight.kind = "binary")
      ]_vars

\* a short text message that is no JSON went to the header decoder, which took it
\* for a short binary message
TextDecodedAsBinaryReached ==
    /\ handled.by = "invalid"
    /\ "json.loads" \in handled.calls
    /\ "_unpack_header" \in handled.calls
    /\ srv_clients

\* ------------------------------------------------------------------ C13
\* the step in which connect() over websocket, with the library imported, gives up
ConnectExhausted ==
    /\ svc_pc # "failed" /\ svc_pc' = "failed"
    /\ config.protocol = "websocket" /\ config.lib

\* C13: when every attempt fails, connect() over websocket has called
\* websockets.connect() exactly max_reconnect_attempts times when it gives up, and
\* it reports ERROR in that step; it never calls it more often than that, and once
\* it has given up websockets.connect() is never called again
RetriesExactlyMax ==
    [][/\ ConnectExhausted =>
            /\ attempts' = config.max_reconnect_attempts
            /\ led_status' = "error" /\ "error" \in reported'
       /\ attempts' <= config.max_reconnect_attempts
       /\ svc_pc = "failed" => (svc_pc' = "failed" /\ attempts' = attempts)
      ]_vars

\* every attempt of the largest configuration has failed, the last on its hello
RetriesExhaustedReached ==
    /\ svc_pc = "failed" /\ config.protocol = "websocket" /\ config.lib
    /\ config.max_reconnect_attempts = MaxAttempts
    /\ attempts = MaxAttempts /\ MaxAttempts >= 2
    /\ websocket = "open" /\ led_status = "error"

\* ------------------------------------------------------------------ C14
\* the step in which connect() reports CONNECTED
ReportsConnected == "connected" \notin reported /\ "connected" \in reported'

\* C14: when connect() reports CONNECTED, over websocket or over http, a transport
\* is open and the hello message has been sent on it
ConnectedOnlyAfterHello ==
    [][ReportsConnected => (TransportOpen' /\ hellos' = 1)]_vars

\* over http CONNECTED has been reported and no hello was ever sent
ConnectedWithoutHelloReached ==
    /\ config.protocol = "http" /\ "connected" \in reported
    /\ http_session = "open" /\ hellos = 0 /\ attempts = 0

\* ------------------------------------------------------------------ C15
\* a frame reaches the transport
FrameWritten == sent' # sent

StreamingOnlyAfterSend == "streaming" \in reported => stats.bytes_sent > 0

\* STREAMING is the status, and nothing has been sent
StreamingBeforeSendReached ==
    /\ led_status = "streaming" /\ stats.bytes_sent = 0
    /\ \A ch \in DOMAIN sent : sent[ch] = <<>>

\* ------------------------------------------------------------------ C17
\* a send() fails with a transport exception while the service runs and reports
\* STREAMING
SendFails ==
    /\ stats'.errors = stats.errors + 1
    /\ svc_running /\ led_status = "streaming"

\* C17: a transport-level send failure moves the status to ERROR
SendFailureMovesToError == [][SendFails => led_status' = "error"]_vars

\* a send failed, the service still runs and reports STREAMING, ERROR was never
\* reported, and no new connection attempt was made
StreamingAfterSendFailureReached ==
    /\ stats.errors > 0 /\ svc_running /\ led_status = "streaming"
    /\ "error" \notin reported /\ attempts <= 1

\* ------------------------------------------------------------------ C18
\* one send() of the audio loop returns
AudioSendReturned == stats'.audio_frames = stats.audio_frames + 1

\* C18: when a send() of the audio loop returns after a write that reached the
\* transport, bytes_sent grows by the message length and errors is unchanged; when
\* it returns after anything else, errors grows by one and bytes_sent is
\* unchanged; and the counters change in no other step
FailedSendsCounted ==
    [][/\ AudioSendReturned =>
            IF FrameWritten
            THEN /\ stats'.bytes_sent = stats.bytes_sent + MessageLen
                 /\ stats'.errors = stats.errors
            ELSE /\ stats'.errors = stats.errors + 1
                 /\ stats'.bytes_sent = stats.bytes_sent
       /\ (stats'.bytes_sent # stats.bytes_sent \/ stats'.errors # stats.errors)
            => AudioSendReturned
      ]_vars

\* a send() returned, no frame reached the transport, and no error was counted
UncountedFailureReached ==
    /\ stats.audio_frames > 0 /\ stats.errors = 0 /\ stats.bytes_sent = 0
    /\ \A ch \in DOMAIN sent : sent[ch] = <<>>

\* ------------------------------------------------------------------ C19
\* stop() has run to its end, and no stop() is in progress
StopCompleted == svc_pc # "init" /\ ~svc_running /\ ~stopping

\* C19: once stop() has completed no transport is open
NoTransportAfterStop ==
    StopCompleted => (websocket = "none" /\ http_session = "none")

\* stop() completed while connect() was suspended in websockets.connect(), which
\* then returned a connection
TransportAfterStopReached ==
    /\ StopCompleted /\ websocket = "open" /\ svc_pc = "hello" /\ led_status = "off"

\* ------------------------------------------------------------------ C20
\* the send() calls suspended in the transport: one of the audio loop, one of the
\* video loop
WritesInProgress ==
    (IF audio_pc \in {"send_front", "send_side"} THEN 1 ELSE 0)
        + (IF video_pc \in {"send_left", "send_right"} THEN 1 ELSE 0)

\* C20: at most one write to the transport is in progress
WritesSerialized == WritesInProgress <= 1

\* the audio loop and the video loop are both suspended in a write to the open
\* transport
TwoWritesReached == WritesInProgress = 2 /\ TransportOpen

\* ------------------------------------------------------------------ C21
\* audio.start() and video.start() have been called, for the streamers that exist
SourcesStarted ==
    /\ config.audio => audio_pc # "idle"
    /\ config.video => capture_pc["left"] # "idle"

\* connect() has been called: its first statement reports CONNECTING
ConnectCalled == "connecting" \in reported

\* the send tasks of the streamers that exist have been created
SendLoopsBegun ==
    /\ config.audio => audio_pc # "idle"
    /\ config.video => video_pc # "idle"

\* C21: while the service runs, each step of the startup has happened only if
\* the steps before it have: the status sink, then the capture sources, then the
\* connection, then the send loops, then the statistics loop
StartupInOrder ==
    svc_running =>
        /\ (SourcesStarted \/ ConnectCalled) => led_running
        /\ ConnectCalled => SourcesStarted
        /\ SendLoopsBegun => (ConnectCalled /\ "connected" \in reported)
        /\ stats_pc # "idle" => SendLoopsBegun

\* connect() is suspended in its first websockets.connect(), and no capture
\* source has been started
ConnectBeforeSourcesReached ==
    /\ svc_running /\ led_running /\ svc_pc = "connecting" /\ attempts = 1
    /\ ~SourcesStarted /\ ~audio_running /\ stream_open = {}

\* ------------------------------------------------------------------ C22
\* stop() has been called: it clears self.running first
ShutdownBegun == svc_pc # "init" /\ ~svc_running

\* the send tasks have ended, or were never created
SendLoopsStopped == audio_pc \in {"idle", "done"} /\ video_pc \in {"idle", "done"}

\* AudioStreamer.running and StereoVideoStreamer.running are both cleared
SourcesStopped == ~audio_running /\ ~video_running

\* C22: once stop() has been called, each step of the shutdown has happened only
\* if the steps before it have: the send loops are stopped, then the connection is
\* disconnected, then the capture sources are stopped, and the status sink is
\* stopped last
ShutdownInOrder ==
    ShutdownBegun =>
        /\ ~TransportOpen => SendLoopsStopped
        /\ (SourcesStarted /\ SourcesStopped) => ~TransportOpen
        /\ ~led_running => (SourcesStopped /\ ~TransportOpen)

\* stop() has stopped the status sink and is suspended in led.stop(), while the
\* connection is open, the audio capture runs and the audio send loop is in its loop
SinkStoppedFirstReached ==
    /\ ShutdownBegun /\ stopping /\ ~led_running /\ led_status = "off"
    /\ websocket = "open" /\ audio_running /\ "front" \in stream_open
    /\ audio_pc \notin {"idle", "done"}

\* ------------------------------------------------------------------ C23
\* camera.start() of camera c returned False, and the video streamer runs
CameraFailed(c) == video_running /\ capture_pc[c] # "idle" /\ ~cam_running[c]

\* video.start() returns with a camera that failed to start
CameraFailsToStart == ~video_running /\ video_running' /\ \E c \in Cameras : ~cam_running'[c]

\* C23: a camera that is not running captures no frame and none is put on its
\* queue; the step in which a camera fails to start leaves run() going on to its
\* send loops, the audio one included; and while the service runs the audio
\* capture stays as it was started and the audio send loop does not end
CameraFailureDisablesVideoOnly ==
    [][/\ \A c \in Cameras :
            ~cam_running[c] =>
                /\ captured'[c] = captured[c]
                /\ Len(frame_queues'[c]) <= Len(frame_queues[c])
       /\ CameraFailsToStart =>
            /\ svc_pc' = "streaming" /\ svc_running' = svc_running
            /\ config.audio => audio_pc' = "top"
       /\ (svc_running /\ svc_running' /\ audio_pc # "idle") =>
            /\ audio_pc' # "done"
            /\ UNCHANGED <<audio_running, stream_open>>
      ]_vars

\* the left camera failed to start, the right one captured, and the audio loop
\* has sent a front frame
AudioSentWithFailedCameraReached ==
    /\ config.audio /\ config.video /\ svc_running
    /\ CameraFailed("left") /\ cam_running["right"] /\ captured["left"] = 0
    /\ sent["front"] # <<>> /\ stats.audio_frames = 1

\* ------------------------------------------------------------------ C24
\* audio.start() has been called and the side InputStream is not started
SideUnavailable == audio_pc # "idle" /\ "side" \notin stream_open

\* audio.start() returns with the front stream started and the side one failed
SideFailsToStart ==
    /\ ~audio_running /\ audio_running'
    /\ "front" \in stream_open' /\ "side" \notin stream_open'

\* the front queue's head is the n-th front frame
FrontHeadIs(n) == audio_queues["front"] # <<>> /\ Head(audio_queues["front"]).seq = n

\* C24: the step in which the side stream fails to start leaves run() going on to
\* its send loops; and with the side stream unavailable every front frame at the
\* head of its queue is eventually dequeued by the send loop, unless the loop has
\* ended after shutdown
SideFailureKeepsFrontSending ==
    /\ [][SideFailsToStart => (svc_pc' = "streaming" /\ audio_pc' = "top")]_vars
    /\ \A n \in 1..MaxCapturesConn :
            (SideUnavailable /\ FrontHeadIs(n)) ~> (~FrontHeadIs(n) \/ audio_pc = "done")

\* with the side stream failed, the loop has sent the first front frame, waited
\* for the side queue in vain, and sent the second front frame
FrontSentPastSideReached ==
    /\ svc_running /\ stream_open = {"front"}
    /\ sent["front"] = <<1, 2>> /\ sent["side"] = <<>>

\* ------------------------------------------------------------------ C25
\* no capture source was started and no task of run() was created
NothingStarted ==
    /\ ~audio_running /\ stream_open = {} /\ ~video_running
    /\ \A c \in Cameras : ~cam_running[c] /\ capture_pc[c] = "idle"
    /\ sync_pc = "idle" /\ audio_pc = "idle" /\ video_pc = "idle" /\ stats_pc = "idle"

\* no frame was handed to send() and none was written
NothingSent ==
    /\ \A ch \in DOMAIN sent : sent[ch] = <<>>
    /\ stats.audio_frames = 0 /\ stats.video_frames = 0 /\ stats.bytes_sent = 0

\* C25: once connect() has reported ERROR, run() has returned, and from then on no
\* capture source is started, no send or statistics task exists and no frame is
\* sent; and after run() returned on the failed connect, stop() runs to its end,
\* where it logs the final statistics
FailedConnectIsFatal ==
    /\ [](("error" \in reported) => (svc_pc = "failed" /\ NothingStarted /\ NothingSent))
    /\ (svc_pc = "failed") ~> StopCompleted

\* every attempt failed, and stop() has run to its end
StoppedAfterFailedConnectReached ==
    /\ svc_pc = "failed" /\ StopCompleted /\ "error" \in reported
    /\ config.protocol = "websocket" /\ config.lib
    /\ attempts = MaxAttempts /\ led_status = "off" /\ websocket = "none"

\* ------------------------------------------------------------------ C26
\* no task of the service is running: each has ended, or was never created
AllTasksOver ==
    /\ \A c \in Cameras : capture_pc[c] \in {"idle", "done"}
    /\ sync_pc \in {"idle", "done"}
    /\ audio_pc \in {"idle", "done"}
    /\ video_pc \in {"idle", "done"}
    /\ stats_pc \in {"idle", "done"}

\* C26: once stop() has been called, from some point on no task of the service
\* runs any more: the capture loops, the synchronizer, the send loops and the
\* statistics loop all end, whatever wait they were suspended in. A service that
\* was stopped stays stopped (self.running is set only at the start of run()), so
\* "stopped leads to all tasks over for good" is "from some point on, stopped
\* implies all tasks over"
TasksEndAfterShutdown ==
    /\ [][ShutdownBegun => ShutdownBegun']_vars
    /\ <>[](ShutdownBegun => AllTasksOver)

\* stop() was called while the video send loop was suspended in a write and the
\* statistics loop in its sleep, and every task has ended
TasksEndedReached ==
    /\ ShutdownBegun /\ ~stopping /\ config.video
    /\ \A c \in Cameras : capture_pc[c] = "done"
    /\ sync_pc = "done" /\ video_pc = "done" /\ stats_pc = "done"
    /\ sent["left"] # <<>> /\ stats.errors > 0

\* ------------------------------------------------------------------ C27
\* stop() has been called while connect() is suspended in websockets.connect() or
\* in the send of the hello
StoppedWhileConnecting == ~svc_running /\ svc_pc \in {"connecting", "hello"}

\* C27: once shutdown has been requested while the service is connecting, no step
\* makes a further connect attempt, starts the capture sources, or reports
\* CONNECTED or STREAMING
ShutdownReachesConnect ==
    [][StoppedWhileConnecting =>
          /\ attempts' = attempts
          /\ ~SourcesStarted'
          /\ "connected" \notin reported' /\ "streaming" \notin reported']_vars

\* stop() ran to its end during the first websockets.connect(); connect() then made
\* a second attempt, reported CONNECTED, and run() started the audio capture and
\* reported STREAMING
StreamingAfterStopReached ==
    /\ ~svc_running /\ ~stopping /\ svc_pc = "streaming"
    /\ attempts > 1 /\ led_status = "streaming"
    /\ audio_running /\ "front" \in stream_open

\* ------------------------------------------------------------------ C28
ElementsOf(sq) == {sq[i] : i \in 1..Len(sq)}
NoDuplicates(sq) == \A i, j \in 1..Len(sq) : i < j => sq[i] # sq[j]

\* the frames of channel ch from the transport back to the capture queue
ChannelPath(ch) ==
    IF ch \in AudioSources THEN AudioPath(ch)
    ELSE IF ch = "left" THEN LeftPath ELSE RightPath

\* frame n of channel ch is the argument of a send() that has not returned
InFlight(ch, n) ==
    IF ch \in AudioSources THEN audio_pc = AudioSendPc(ch) /\ audio_frame.seq = n
    ELSE IF ch = "left" THEN video_pc = "send_left" /\ video_pair.left.seq = n
    ELSE video_pc \in {"send_left", "send_right"} /\ video_pair.right.seq = n

\* how far frame n of channel ch has come: 0 in its capture queue, 1 held by the
\* synchronizer, 2 in a pair of the stereo queue, 3 taken by the send loop and not
\* yet through send(), 4 consumed (written, failed, or dropped)
FrameStage(ch, n) ==
    IF ch \in AudioSources /\ n \in ElementsOf(SeqsOf(audio_queues[ch])) THEN 0
    ELSE IF ch \in Cameras /\ n \in ElementsOf(SeqsOf(frame_queues[ch])) THEN 0
    ELSE IF ch = "left" /\ left_frame.seq = n THEN 1
    ELSE IF /\ ch \in Cameras
            /\ \E i \in 1..Len(frame_queues["stereo"]) :
                    frame_queues["stereo"][i][ch].seq = n
    THEN 2
    ELSE IF InFlight(ch, n) THEN 3
    ELSE 4

\* C28: a captured frame is in at most one place at a time and only moves on: out
\* of its queue once, into one pair, into one send(), and onto the transport at
\* most once and only from that send(); a frame that is consumed, its send failed
\* or not, is never queued, paired or sent again, whether or not stop() was called
FramesConsumedOnce ==
    [][\A ch \in Channels :
          /\ NoDuplicates(ChannelPath(ch))'
          /\ \A n \in 1..captured[ch] :
                /\ FrameStage(ch, n)' >= FrameStage(ch, n)
                /\ (n \in ElementsOf(sent[ch])' /\ n \notin ElementsOf(sent[ch]))
                        => FrameStage(ch, n) = 3]_vars

\* after stop(): the right frame of the first pair failed in send() and was not
\* written afterwards, the second pair was written whole
FailedFrameNotResentReached ==
    /\ ShutdownBegun /\ video_pc = "done" /\ stats.errors = 1
    /\ sent["left"] = <<1, 2>> /\ sent["right"] = <<2>>
    /\ \A c \in Cameras : captured[c] = 2 /\ frame_queues[c] = <<>>

\* ------------------------------------------------------------------ C29
\* C29: no step of the service, connect, send, failed send or stop, lowers or
\* resets one of the counters audio_frames, video_frames, bytes_sent, errors
StatsNeverDecrease ==
    [][\A k \in DOMAIN stats : stats'[k] >= stats[k]]_vars

\* stop() has completed after two audio frames went through send(), one written
\* and one failed; the counters stand as the sends left them
StatsKeptAfterStopReached ==
    /\ ShutdownBegun /\ ~stopping /\ ~TransportOpen /\ audio_pc = "done"
    /\ stats = [audio_frames |-> 2, video_frames |-> 0,
                bytes_sent |-> MessageLen, errors |-> 1]

\* ------------------------------------------------------------------ C30
\* C30: audio_frames is the number of audio frames written to the transport, and
\* video_frames counts no pair of which a frame was not written: it is at most
\* the number of left frames and at most the number of right frames written
FrameCountersCountSent ==
    /\ stats.audio_frames = Len(sent["front"]) + Len(sent["side"])
    /\ stats.video_frames <= Len(sent["left"])
    /\ stats.video_frames <= Len(sent["right"])

\* the send() of the one audio frame failed on the open websocket, was counted as
\* an error, and was counted in audio_frames
FailedFrameCountedReached ==
    /\ websocket = "open" /\ audio_pc = "get_side"
    /\ stats.audio_frames = 1 /\ stats.errors = 1 /\ stats.bytes_sent = 0
    /\ \A ch \in DOMAIN sent : sent[ch] = <<>>

\* ------------------------------------------------------------------ C31
\* C31: every angle that calculate_direction returns is a number from -90 to 90
\* degrees, for any two buffers and any positive sample rate: the argument of the
\* arcsine is within [-1, 1]
AngleWithinRange ==
    loc_pc = "returned" =>
        /\ loc_rate > 0
        /\ Abs(loc_result.sin[1]) <= loc_result.sin[2]
        /\ ~loc_result.angle.nan
        /\ loc_result.angle.deg >= -90 /\ loc_result.angle.deg <= 90

\* a delay of two samples at a sample rate of 1000: the quotient 68600 / 30000 is
\* above 1, and the angle returned is 90 degrees
ClampedAngleReached ==
    /\ loc_pc = "returned" /\ loc_rate = 1000 /\ loc_result.delay = 2
    /\ SinOfDelay(loc_result.delay, loc_rate)[1] > SinOfDelay(loc_result.delay, loc_rate)[2]
    /\ loc_result.angle = [nan |-> FALSE, deg |-> 90]

\* ------------------------------------------------------------------ C32
\* C32: every confidence that calculate_direction returns is from 0 to 1, also
\* for buffers that are anti-correlated or all zero
ConfidenceWithinUnit ==
    loc_pc = "returned" =>
        /\ loc_result.confidence[1] >= 0
        /\ loc_result.confidence[1] <= loc_result.confidence[2]

\* the buffers [1] and [-1]: the one correlation value is -1, and the confidence
\* returned is -1/10
NegativeConfidenceReached ==
    /\ loc_pc = "returned" /\ loc_left = <<1>> /\ loc_right = <<-1>>
    /\ loc_result.confidence = <<-1, 10>>

\* ------------------------------------------------------------------ C34
\* the two buffers of the call are identical
ZeroDelayCall == loc_left = loc_right

\* C34: for identical buffers the delay returned is 0 samples and the angle is 0
\* degrees
ZeroDelayGivesZeroAngle ==
    (loc_pc = "returned" /\ ZeroDelayCall) =>
        /\ loc_result.delay = 0
        /\ loc_result.sin[1] = 0
        /\ loc_result.angle = [nan |-> FALSE, deg |-> 0]

\* two identical buffers of four zeros at a sample rate of 1000: the delay is -3
\* samples and the angle -90 degrees
SilenceLocatedLeftReached ==
    /\ loc_pc = "returned" /\ ZeroDelayCall /\ loc_left = <<0, 0, 0, 0>>
    /\ loc_rate = 1000 /\ loc_result.delay = -3
    /\ loc_result.angle = [nan |-> FALSE, deg |-> -90]
    /\ loc_result.confidence = <<0, 1>>

\* ------------------------------------------------------------------ C33
\* the right buffer is the left one delayed by one sample or more: the sound
\* arrives at the left microphone first
RightIsDelayedCopy ==
    /\ loc_left # loc_right
    /\ \E d \in 1..Len(loc_left) : loc_right = Delayed(loc_left, d)

\* the left buffer is the right one delayed by one sample or more: the sound
\* arrives at the right microphone first
LeftIsDelayedCopy ==
    /\ loc_left # loc_right
    /\ \E d \in 1..Len(loc_right) : loc_left = Delayed(loc_right, d)

\* the correlation of the call's buffers has its maximum at one lag only
SinglePeak ==
    \A i \in 1..Len(loc_result.correlation) :
        i # ArgMax(loc_result.correlation) + 1
            => loc_result.correlation[i] < loc_result.correlation[ArgMax(loc_result.correlation) + 1]

\* the delay and the angle returned are negative / positive
LocatedLeft ==
    loc_result.delay < 0 /\ loc_result.sin[1] < 0 /\ loc_result.angle.deg <= 0
LocatedRight ==
    loc_result.delay > 0 /\ loc_result.sin[1] > 0 /\ loc_result.angle.deg >= 0

SyncTookOneSide ==
    /\ sync_pc = "get_right" /\ sync_pc' = "top"
    /\ left_frame = None \/ frame_queues["right"] = <<>>

\* the pairs the video side holds: in the stereo queue, and in the send loop
PairsHeld ==
    FramesOf(frame_queues["stereo"])
        \cup (IF video_pc \in {"send_left", "send_right"} THEN {video_pair} ELSE {})

\* C35: an iteration of the synchronizer in which only one get returned a frame
\* emits no pair and keeps nothing: the frame is not held for the next iteration
\* and not put back on its queue; a pair that is emitted is made of the two frames
\* of that iteration; and no frame that an iteration dropped is in any pair or
\* reaches the transport
LoneFrameDropped ==
    [][/\ SyncTookOneSide =>
            /\ frame_queues'["stereo"] = frame_queues["stereo"]
            /\ left_frame' = None
            /\ frame_queues'["left"] = frame_queues["left"]
            /\ frame_queues'["right"] = AfterGet(frame_queues["right"])
       /\ Len(frame_queues'["stereo"]) > Len(frame_queues["stereo"]) =>
            (SyncTookBoth /\ SyncProducedPair)
       /\ \A d \in discarded' :
            /\ \A p \in PairsHeld' :
                    /\ d[1] # None => p.left # d[1]
                    /\ d[2] # None => p.right # d[2]
            /\ d[1] # None => d[1].seq \notin ElementsOf(sent'["left"])
            /\ d[2] # None => d[2].seq \notin ElementsOf(sent'["right"])
      ]_vars

\* one iteration got only a left frame and a later one only a right frame: both
\* frames are gone and no pair was made of them
LoneFramesDroppedReached ==
    /\ \E d \in discarded : d[1] # None /\ d[2] = None
    /\ \E d \in discarded : d[1] = None /\ d[2] # None
    /\ captured["left"] = 1 /\ captured["right"] = 1
    /\ frame_queues = [left |-> <<>>, right |-> <<>>, stereo |-> <<>>]
    /\ left_frame = None /\ sync_pc = "top"

\* ------------------------------------------------------------------ C36
\* the left frames of the pairs the video side holds, from the send loop back to
\* the tail of the stereo queue
PairsInOrder ==
    (IF video_pc \in {"send_left", "send_right"} THEN <<video_pair.left.seq>> ELSE <<>>)
    \o [i \in 1..Len(frame_queues["stereo"]) |-> frame_queues["stereo"][i].left.seq]

StopCallsInFlight == (IF stopping THEN 1 ELSE 0) + stop_more

\* a further stop() while one is suspended, up to its own suspension: self.running
\* = False, led.set_status(OFF), led.stop() (cancelling the animation task again
\* and awaiting it)
StopAgainBegin ==
    /\ svc_pc # "init"
    /\ stopping
    /\ StopCallsInFlight < MaxStopCalls
    /\ stop_more' = stop_more + 1
    /\ svc_running' = FALSE
    /\ SetStatus(<<"off">>)
    /\ led_running' = FALSE
    /\ UNCHANGED <<wire_vars, loc_vars, rtc_vars>>
    /\ UNCHANGED <<config, svc_pc, stopping, websocket, http_session, attempts, hellos,
                   stats, streamer_vars, audio_queues, frame_queues, left_frame,
                   audio_frame, video_pair, now, hist_vars>>

\* mutant: a further stop() returns without disconnect()
StopAgainFinishKeepsTransport ==
    /\ stop_more > 0
    /\ stop_more' = stop_more - 1
    /\ audio_running' = FALSE
    /\ stream_open' = {}
    /\ video_running' = FALSE
    /\ cam_running' = [c \in Cameras |-> FALSE]
    /\ UNCHANGED <<wire_vars, loc_vars, rtc_vars>>
    /\ UNCHANGED <<led_running, stats_pc, stopping, websocket, http_session>>
    /\ UNCHANGED <<config, svc_pc, svc_running, attempts, hellos, led_status, reported,
                   stats, audio_queues, frame_queues, capture_pc, sync_pc, left_frame,
                   audio_pc, audio_frame, video_pc, video_pair, now, hist_vars>>

\* the rest of a further stop(): audio.stop() (each stream of _streams stopped and
\* closed, _streams cleared), video.stop(), disconnect() (each of websocket and
\* http_session closed if it is set, then set to None)
StopAgainFinish ==
    /\ stop_more > 0
    /\ stop_more' = stop_more - 1
    /\ audio_running' = FALSE
    /\ stream_open' = {}
    /\ video_running' = FALSE
    /\ cam_running' = [c \in Cameras |-> FALSE]
    /\ websocket' = "none"
    /\ http_session' = "none"
    /\ UNCHANGED <<wire_vars, loc_vars, rtc_vars>>
    /\ UNCHANGED <<led_running, stats_pc, stopping>>
    /\ UNCHANGED <<config, svc_pc, svc_running, attempts, hellos, led_status, reported,
                   stats, audio_queues, frame_queues, capture_pc, sync_pc, left_frame,
                   audio_pc, audio_frame, video_pc, video_pair, now, hist_vars>>

\* one streamer: audio over websocket or http, or video over websocket
StopInit ==
    /\ config \in {c \in Configs(BOOLEAN, {"websocket", "http"}, {1}, {TRUE}) :
                     ~(c.audio /\ c.video) /\ (c.video => c.protocol = "websocket")}
    /\ budget = IF config.video THEN MaxCapturesStop + 1 ELSE MaxCapturesStop
    /\ Constructed
    /\ ServerConstructed
    /\ LocalizerConstructed
    /\ ClientConstructed

StopNext ==
    \/ Next
    \/ StopAgainBegin
    \/ StopAgainFinish

StopSpec == StopInit /\ [][StopNext]_vars

\* --------------------------------------------------------------- C37
\* a stop() call returns in this step
StopReturns == StopCallsInFlight' < StopCallsInFlight

\* a stop() call begins or returns in this step
StopStep == StopCallsInFlight' # StopCallsInFlight

\* what stop() leaves: running false, no open transport, the capture streams released
Released ==
    /\ ~svc_running
    /\ ~TransportOpen
    /\ ~audio_running /\ stream_open = {}
    /\ ~video_running /\ \A c \in Cameras : ~cam_running[c]

FailedConnectHoldsNoTransport == svc_pc = "failed" => websocket = "none"

\* connect() returned False after the hello raised on the last attempt, no stop()
\* has been called yet, and self.websocket is still the socket of that attempt
FailedConnectKeepsSocketReached ==
    /\ svc_pc = "failed" /\ svc_running /\ ~stopping
    /\ attempts = config.max_reconnect_attempts
    /\ websocket = "open" /\ hellos = 0

\* ------------------------------------------------------ WebRTCClient
\* position of a camera id in RtcCameras
CameraIndex(c) == CHOOSE i \in 1..Len(RtcCameras) : RtcCameras[i] = c

\* the camera ids that have an entry in peer_connections, in the order of the dict
RECURSIVE KeysFrom(_)
KeysFrom(i) ==
    IF i > Len(RtcCameras) THEN <<>>
    ELSE IF peer_connections[RtcCameras[i]] # 0
    THEN <<RtcCameras[i]>> \o KeysFrom(i + 1)
    ELSE KeysFrom(i + 1)

\* start_camera_stream(c) while connected, up to its suspension in createOffer():
\* a new track replaces video_tracks[c], a new RTCPeerConnection replaces
\* peer_connections[c]; the entry that was there is not looked at
StartRegisters(c) ==
    /\ pcs_made[c] < MaxPeerConnections
    /\ video_tracks' = video_tracks \cup {c}
    /\ pcs_made' = [pcs_made EXCEPT ![c] = @ + 1]
    /\ peer_connections' = [peer_connections EXCEPT ![c] = pcs_made[c] + 1]
    /\ open_pcs' = open_pcs \cup {<<c, pcs_made[c] + 1>>}

\* start_camera_stream(RtcCameras[i]) called by the connect handler, then the
\* next one if the call returned at once (not connected), up to a suspension or
\* the end of _on_server_connected
HandlerStartsFrom(i) ==
    IF i > Len(RtcCameras) \/ ~rtc_connected'
    THEN /\ handler_pc' = "idle"
         /\ UNCHANGED <<peer_connections, video_tracks, open_pcs, pcs_made>>
    ELSE /\ handler_pc' = RtcCameras[i]
         /\ StartRegisters(RtcCameras[i])

\* the socket connects while a connect() waits for it: the connect handler sets
\* _connected and awaits _on_connected, which starts the first camera stream
ConnectEvent ==
    /\ reconnect_pc \in {"run", "connect"}
    /\ handler_pc = "idle"
    /\ rtc_connected' = TRUE
    /\ reconnect_pc' = IF reconnect_pc = "run" THEN "run_ok" ELSE "connect_ok"
    /\ HandlerStartsFrom(1)
    /\ UNCHANGED <<reconnect_len, api_pc>>
    /\ UNCHANGED <<robot_vars, wire_vars, loc_vars, stop_more>>

\* the start_camera_stream the connect handler was suspended in returns (the
\* offer was sent, or an exception was caught), and the handler goes on
HandlerStartDone ==
    /\ handler_pc \in RtcCameraIds
    /\ UNCHANGED rtc_connected
    /\ HandlerStartsFrom(CameraIndex(handler_pc) + 1)
    /\ UNCHANGED <<reconnect_pc, reconnect_len, api_pc>>
    /\ UNCHANGED <<robot_vars, wire_vars, loc_vars, stop_more>>

\* the socket is lost: the disconnect handler clears _connected
ServerDrop ==
    /\ rtc_connected
    /\ rtc_connected' = FALSE
    /\ UNCHANGED <<peer_connections, video_tracks, open_pcs, pcs_made, handler_pc,
                   reconnect_pc, reconnect_len, api_pc>>
    /\ UNCHANGED <<robot_vars, wire_vars, loc_vars, stop_more>>

\* sio.connect() raised: connect() returns False; run() returns, reconnect_loop
\* goes to its sleep
ConnectFails ==
    /\ reconnect_pc \in {"run", "connect"}
    /\ reconnect_pc' = IF reconnect_pc = "run" THEN "over" ELSE "sleep"
    /\ UNCHANGED <<rtc_connected, peer_connections, video_tracks, open_pcs, pcs_made,
                   handler_pc, reconnect_len, api_pc>>
    /\ UNCHANGED <<robot_vars, wire_vars, loc_vars, stop_more>>

\* reconnect_loop's `for camera_id, track in self.video_tracks.items()`, at the
\* item of position i: the dict iterator raises if the dict has another size than
\* when the loop began (len); a start_camera_stream that finds the client not
\* connected returns at once; else the loop is suspended in the next call
RestartsFrom(i, len) ==
    IF Cardinality(video_tracks) # len
    THEN /\ reconnect_pc' = "raised"
         /\ UNCHANGED <<peer_connections, video_tracks, open_pcs, pcs_made>>
    ELSE IF ~rtc_connected \/ \A j \in i..Len(RtcCameras) : RtcCameras[j] \notin video_tracks
    THEN /\ reconnect_pc' = "sleep"
         /\ UNCHANGED <<peer_connections, video_tracks, open_pcs, pcs_made>>
    ELSE \E j \in i..Len(RtcCameras) :
            /\ RtcCameras[j] \in video_tracks
            /\ \A k \in i..(j - 1) : RtcCameras[k] \notin video_tracks
            /\ reconnect_pc' = RtcCameras[j]
            /\ StartRegisters(RtcCameras[j])

\* connect() returns True: run() creates the reconnect_loop task, which goes to
\* its first test; reconnect_loop restarts the stream of every track it has
ConnectSucceeds ==
    /\ reconnect_pc \in {"run_ok", "connect_ok"}
    /\ IF reconnect_pc = "run_ok"
       THEN /\ reconnect_pc' = "sleep"
            /\ UNCHANGED <<peer_connections, video_tracks, open_pcs, pcs_made,
                           reconnect_len>>
       ELSE /\ reconnect_len' = Cardinality(video_tracks)
            /\ RestartsFrom(1, Cardinality(video_tracks))
    /\ UNCHANGED <<rtc_connected, handler_pc, api_pc>>
    /\ UNCHANGED <<robot_vars, wire_vars, loc_vars, stop_more>>

\* the start_camera_stream reconnect_loop was suspended in returns, and the for
\* loop takes its next item
ReconnectStartDone ==
    /\ reconnect_pc \in RtcCameraIds
    /\ RestartsFrom(CameraIndex(reconnect_pc) + 1, reconnect_len)
    /\ UNCHANGED <<rtc_connected, handler_pc, reconnect_len, api_pc>>
    /\ UNCHANGED <<robot_vars, wire_vars, loc_vars, stop_more>>

\* reconnect_loop's sleep ends and it finds the client not connected: it calls
\* connect()
ReconnectWake ==
    /\ reconnect_pc = "sleep"
    /\ ~rtc_connected
    /\ reconnect_pc' = "connect"
    /\ UNCHANGED <<rtc_connected, peer_connections, video_tracks, open_pcs, pcs_made,
                   handler_pc, reconnect_len, api_pc>>
    /\ UNCHANGED <<robot_vars, wire_vars, loc_vars, stop_more>>

\* stop_camera_stream(c) up to its first suspension: the peer connection is
\* popped and its close() called; with none to close, the track is popped too
\* (the emit that follows changes nothing here)
StopCameraStream(c) ==
    /\ api_pc = NoCall
    /\ IF peer_connections[c] # 0
       THEN /\ peer_connections' = [peer_connections EXCEPT ![c] = 0]
            /\ open_pcs' = open_pcs \ {<<c, peer_connections[c]>>}
            /\ api_pc' = [op |-> "stop", at |-> c, keys |-> <<>>]
            /\ UNCHANGED video_tracks
       ELSE /\ video_tracks' = video_tracks \ {c}
            /\ UNCHANGED <<peer_connections, open_pcs, api_pc>>
    /\ UNCHANGED <<rtc_connected, pcs_made, handler_pc, reconnect_pc, reconnect_len>>
    /\ UNCHANGED <<robot_vars, wire_vars, loc_vars, stop_more>>

\* pc.close() of stop_camera_stream returned: the track is popped
StopCloseDone ==
    /\ api_pc.op = "stop"
    /\ video_tracks' = video_tracks \ {api_pc.at}
    /\ api_pc' = NoCall
    /\ UNCHANGED <<rtc_connected, peer_connections, open_pcs, pcs_made, handler_pc,
                   reconnect_pc, reconnect_len>>
    /\ UNCHANGED <<robot_vars, wire_vars, loc_vars, stop_more>>

\* the keys of ks from the first one that still has a peer connection
RECURSIVE FromFirstHeld(_)
FromFirstHeld(ks) ==
    IF ks = <<>> THEN <<>>
    ELSE IF peer_connections[Head(ks)] # 0 THEN ks
    ELSE FromFirstHeld(Tail(ks))

\* disconnect()'s loop over its list of keys ks, with tracks left in video_tracks:
\* stop_camera_stream of each key up to the next suspension in a pc.close(); after
\* the last key, sio.disconnect() if the socket is connected (a suspension), then
\* _connected = False
DisconnectLoop(ks, tracks) ==
    LET rest == FromFirstHeld(ks)
        skipped == {ks[i] : i \in 1..(Len(ks) - Len(rest))}
    IN  /\ video_tracks' = tracks \ skipped
        /\ IF rest # <<>>
           THEN /\ peer_connections' = [peer_connections EXCEPT ![Head(rest)] = 0]
                /\ open_pcs' = open_pcs \ {<<Head(rest), peer_connections[Head(rest)]>>}
                /\ api_pc' = [op |-> "disconnect", at |-> "close", keys |-> rest]
                /\ UNCHANGED rtc_connected
           ELSE /\ UNCHANGED <<peer_connections, open_pcs>>
                /\ IF rtc_connected
                   THEN /\ api_pc' = [op |-> "disconnect", at |-> "socket", keys |-> <<>>]
                        /\ UNCHANGED rtc_connected
                   ELSE /\ api_pc' = NoCall
                        /\ rtc_connected' = FALSE

\* disconnect() up to its first suspension
Disconnect ==
    /\ api_pc = NoCall
    /\ DisconnectLoop(KeysFrom(1), video_tracks)
    /\ UNCHANGED <<pcs_made, handler_pc, reconnect_pc, reconnect_len>>
    /\ UNCHANGED <<robot_vars, wire_vars, loc_vars, stop_more>>

\* a pc.close() of disconnect() returned: the track of that key is popped and the
\* loop goes on
DisconnectCloseDone ==
    /\ api_pc.op = "disconnect"
    /\ api_pc.at = "close"
    /\ DisconnectLoop(Tail(api_pc.keys), video_tracks \ {Head(api_pc.keys)})
    /\ UNCHANGED <<pcs_made, handler_pc, reconnect_pc, reconnect_len>>
    /\ UNCHANGED <<robot_vars, wire_vars, loc_vars, stop_more>>

\* sio.disconnect() of disconnect() returned: _connected = False
DisconnectSocketDone ==
    /\ api_pc.op = "disconnect"
    /\ api_pc.at = "socket"
    /\ rtc_connected' = FALSE
    /\ api_pc' = NoCall
    /\ UNCHANGED <<peer_connections, video_tracks, open_pcs, pcs_made, handler_pc,
                   reconnect_pc, reconnect_len>>
    /\ UNCHANGED <<robot_vars, wire_vars, loc_vars, stop_more>>

\* the client alone; the streaming service stays as constructed
RtcInit ==
    /\ config \in Configs({TRUE}, {"websocket"}, {1}, {TRUE})
    /\ budget = 0
    /\ Constructed
    /\ ServerConstructed
    /\ LocalizerConstructed
    /\ ClientConstructed

RtcNext ==
    \/ ConnectEvent
    \/ HandlerStartDone
    \/ ServerDrop
    \/ ConnectFails
    \/ ConnectSucceeds
    \/ ReconnectStartDone
    \/ ReconnectWake
    \/ \E c \in RtcCameraIds : StopCameraStream(c)
    \/ StopCloseDone
    \/ Disconnect
    \/ DisconnectCloseDone
    \/ DisconnectSocketDone

RtcSpec == RtcInit /\ [][RtcNext]_vars

\* --------------------------------------------------------------- C39
\* the open peer connections of camera id c
OpenFor(c) == {pc \in open_pcs : pc[1] = c}

\* C39: at any time at most one peer connection is open per camera id, and a peer
\* connection that is replaced in peer_connections has been closed by then
OnePeerConnectionPerCamera ==
    /\ [](\A c \in RtcCameraIds : Cardinality(OpenFor(c)) <= 1)
    /\ [][\A c \in RtcCameraIds :
            (peer_connections[c] # 0 /\ peer_connections'[c] \notin {0, peer_connections[c]})
                => <<c, peer_connections[c]>> \notin open_pcs'
         ]_vars

\* after a lost socket and a reconnect, the connect handler has started the left
\* stream again: the first peer connection of "left" is open and no longer in
\* peer_connections, which holds the second
ReplacedConnectionOpenReached ==
    /\ rtc_connected /\ api_pc = NoCall
    /\ pcs_made = [c \in RtcCameraIds |-> IF c = "left" THEN 2 ELSE 1]
    /\ peer_connections["left"] = 2
    /\ {<<"left", 1>>, <<"left", 2>>} \subseteq open_pcs

\* --------------------------------------------------------------- C40
\* a disconnect() call returns in this step
DisconnectReturns == api_pc.op = "disconnect" /\ api_pc'.op = "idle"

\* a task that was about to call start_camera_stream takes its step while the
\* client is not connected: the connect handler after its first stream, or
\* reconnect_loop at an item of its for loop
StartCalledNotConnected ==
    /\ ~rtc_connected
    /\ \/ handler_pc = RtcCameras[1] /\ handler_pc' # handler_pc
       \/ reconnect_pc = RtcCameras[1] /\ reconnect_pc' \notin {reconnect_pc, "raised"}

\* C40: when disconnect() returns, peer_connections and video_tracks are empty,
\* every peer connection that was made is closed and _connected is false; and a
\* start_camera_stream called while not connected leaves peer_connections and
\* video_tracks as they are
DisconnectLeavesNothing ==
    [][/\ DisconnectReturns =>
            /\ \A c \in RtcCameraIds : peer_connections'[c] = 0
            /\ video_tracks' = {}
            /\ open_pcs' = {}
            /\ ~rtc_connected'
       /\ StartCalledNotConnected => UNCHANGED <<peer_connections, video_tracks>>
      ]_vars

\* the half of C40 about a call made while not connected, alone
StartNotConnectedChangesNothing ==
    [][StartCalledNotConnected => UNCHANGED <<peer_connections, video_tracks>>]_vars

\* the half of C40 about the maps and the flag after disconnect(), alone
DisconnectEmptiesMaps ==
    [][DisconnectReturns =>
            /\ \A c \in RtcCameraIds : peer_connections'[c] = 0
            /\ video_tracks' = {}
            /\ ~rtc_connected'
      ]_vars

\* disconnect() has closed every peer connection it found and is about to return,
\* while the first peer connection of "left", replaced after a reconnect, is open
DisconnectLeavesOpenReached ==
    /\ api_pc.op = "disconnect" /\ api_pc.at = "socket"
    /\ \A c \in RtcCameraIds : peer_connections[c] = 0
    /\ video_tracks = {}
    /\ <<"left", 1>> \in open_pcs

====
